---- MODULE Spec2Model ----
(***************************************************************************)
(* The agent control loop of k8s-istio-agent (src/agent/controller.py),    *)
(* the tool registry (src/tools/registry.py) and the guarded tool          *)
(* execution (src/tools/base.py).                                          *)
(*                                                                         *)
(* A Python str is a sequence of one-character strings, so that strip,     *)
(* split, lower, startswith and the substring test are computed as Python  *)
(* computes them.  An Optional value is a sequence of length 0 (None) or 1.*)
(* A dict is the sequence of its (key, value) pairs in insertion order.    *)
(***************************************************************************)
EXTENDS Integers, Sequences, FiniteSets, TLC

(* ------------------------------ bounds --------------------------------- *)
\* the largest max_iterations a controller is constructed with
MaxIter == 2
\* the largest conversation_memory a controller is constructed with
MaxMem == 2
\* process_query calls made on one controller
MaxTurns == 2
\* the longest history on which process_query is called again (with
\* conversation_memory = 0 the history grows with every call)
MaxHist == 4

(* ---------------------------- Python str ------------------------------- *)
None == <<>>
Some(v) == <<v>>

Whitespace == {" ", "\t", "\n", "\r"}

Upper == <<"A","B","C","D","E","F","G","H","I","J","K","L","M","N","O","P","Q","R","S","T","U","V","W","X","Y","Z">>
Lower == <<"a","b","c","d","e","f","g","h","i","j","k","l","m","n","o","p","q","r","s","t","u","v","w","x","y","z">>

LowerChar(c) ==
    IF \E i \in 1..Len(Upper) : Upper[i] = c
    THEN Lower[CHOOSE i \in 1..Len(Upper) : Upper[i] = c]
    ELSE c

\* str.lower()
lower(s) == [i \in 1..Len(s) |-> LowerChar(s[i])]

\* str.startswith(p)
startswith(s, p) == Len(s) >= Len(p) /\ SubSeq(s, 1, Len(p)) = p

\* `sub in s`
contains(s, sub) ==
    \E i \in 1..(Len(s) - Len(sub) + 1) : SubSeq(s, i, i + Len(sub) - 1) = sub

\* s[n:] for n >= 0
slice_from(s, n) == SubSeq(s, n + 1, Len(s))

\* str.strip()
strip(s) ==
    LET keep == {i \in 1..Len(s) : s[i] \notin Whitespace}
    IN  IF keep = {} THEN <<>>
        ELSE SubSeq(s, CHOOSE i \in keep : \A j \in keep : i <= j,
                       CHOOSE i \in keep : \A j \in keep : i >= j)

\* index of the first occurrence of the character c in s, 0 when there is none
find(s, c) ==
    IF \E i \in 1..Len(s) : s[i] = c
    THEN CHOOSE i \in 1..Len(s) : s[i] = c /\ \A j \in 1..(i - 1) : s[j] # c
    ELSE 0

\* str.split(c) for a one-character separator c
RECURSIVE split(_, _)
split(s, c) ==
    IF find(s, c) = 0 THEN <<s>>
    ELSE <<SubSeq(s, 1, find(s, c) - 1)>> \o split(slice_from(s, find(s, c)), c)

\* str.split(c, 1)
split1(s, c) ==
    IF find(s, c) = 0 THEN <<s>>
    ELSE <<SubSeq(s, 1, find(s, c) - 1), slice_from(s, find(s, c))>>

\* sep.join(parts)
RECURSIVE join(_, _)
join(sep, parts) ==
    IF parts = <<>> THEN <<>>
    ELSE IF Len(parts) = 1 THEN parts[1]
    ELSE parts[1] \o sep \o join(sep, Tail(parts))

Digits == <<"0","1","2","3","4","5","6","7","8","9">>

\* str(n) for an int n >= 0
RECURSIVE int_str(_)
int_str(n) ==
    IF n < 10 THEN <<Digits[n + 1]>>
    ELSE int_str(n \div 10) \o <<Digits[(n % 10) + 1]>>

\* any(p in s for p in phrases)
contains_any(s, phrases) == \E i \in 1..Len(phrases) : contains(s, phrases[i])

(* ------------------------------ dict ----------------------------------- *)
dict_keys(d) == {d[i].k : i \in 1..Len(d)}
dict_has(d, key) == key \in dict_keys(d)
dict_get(d, key) == d[CHOOSE i \in 1..Len(d) : d[i].k = key].v
\* d[key] = value: a present key keeps its place, a new key goes last
dict_set(d, key, value) ==
    IF dict_has(d, key)
    THEN [i \in 1..Len(d) |-> IF d[i].k = key THEN [k |-> key, v |-> value] ELSE d[i]]
    ELSE Append(d, [k |-> key, v |-> value])
\* d.update(e)
RECURSIVE dict_update(_, _)
dict_update(d, e) ==
    IF e = <<>> THEN d
    ELSE dict_update(dict_set(d, e[1].k, e[1].v), Tail(e))

(* --------------------------- string constants -------------------------- *)
S_kubectl == <<"k","u","b","e","c","t","l">>
S_istio == <<"i","s","t","i","o">>
S_logs == <<"l","o","g","s">>
S_istio_proxy == <<"i","s","t","i","o","_","p","r","o","x","y">>
S_istio_config == <<"i","s","t","i","o","_","c","o","n","f","i","g">>
S_kubectl_prefix == <<"k","u","b","e","c","t","l"," ">>
S_istio_prefix == <<"i","s","t","i","o"," ">>
S_command == <<"c","o","m","m","a","n","d">>
S_namespace == <<"n","a","m","e","s","p","a","c","e">>
S_action == <<"a","c","t","i","o","n">>
S_service == <<"s","e","r","v","i","c","e">>
S_get_pods == <<"g","e","t"," ","p","o","d","s">>
S_get_services == <<"g","e","t"," ","s","e","r","v","i","c","e","s">>
S_let_me_check == <<"l","e","t"," ","m","e"," ","c","h","e","c","k">>
S_using == <<"u","s","i","n","g">>
S_pods == <<"p","o","d","s">>
S_services == <<"s","e","r","v","i","c","e","s">>
S_crashloopbackoff == <<"c","r","a","s","h","l","o","o","p","b","a","c","k","o","f","f">>
S_imagepullbackoff == <<"i","m","a","g","e","p","u","l","l","b","a","c","k","o","f","f">>
S_errimagepull == <<"e","r","r","i","m","a","g","e","p","u","l","l">>
S_pending == <<"p","e","n","d","i","n","g">>
S_running == <<"r","u","n","n","i","n","g">>
S_running_suffix == <<" ","r","u","n","n","i","n","g">>
S_pod_health == <<"p","o","d","_","h","e","a","l","t","h">>
S_tool_results == <<"T","o","o","l"," ","R","e","s","u","l","t","s",":","\n">>
S_executed_successfully == <<" ","e","x","e","c","u","t","e","d"," ","s","u","c","c","e","s","s","f","u","l","l","y",":","\n">>
S_failed == <<" ","f","a","i","l","e","d",":"," ">>
S_None == <<"N","o","n","e">>
S_error_prefix == <<"I"," ","e","n","c","o","u","n","t","e","r","e","d"," ","a","n"," ","e","r","r","o","r"," ","w","h","i","l","e"," ","t","r","o","u","b","l","e","s","h","o","o","t","i","n","g",":"," ">>
S_error_suffix == <<"."," ","P","l","e","a","s","e"," ","t","r","y"," ","r","e","p","h","r","a","s","i","n","g"," ","y","o","u","r"," ","q","u","e","s","t","i","o","n"," ","o","r"," ","p","r","o","v","i","d","e"," ","m","o","r","e"," ","s","p","e","c","i","f","i","c"," ","d","e","t","a","i","l","s",".">>
S_limit_message == <<"I","'","v","e"," ","r","e","a","c","h","e","d"," ","m","y"," ","a","n","a","l","y","s","i","s"," ","l","i","m","i","t"," ","f","o","r"," ","t","h","i","s"," ","q","u","e","r","y","."," ","B","a","s","e","d"," ","o","n"," ","m","y"," ","i","n","v","e","s","t","i","g","a","t","i","o","n",","," ","I"," ","r","e","c","o","m","m","e","n","d"," ","r","e","v","i","e","w","i","n","g"," ","t","h","e"," ","t","o","o","l"," ","o","u","t","p","u","t","s"," ","a","b","o","v","e"," ","f","o","r"," ","i","n","s","i","g","h","t","s","."," ","P","l","e","a","s","e"," ","p","r","o","v","i","d","e"," ","m","o","r","e"," ","s","p","e","c","i","f","i","c"," ","i","n","f","o","r","m","a","t","i","o","n"," ","o","r"," ","a","s","k"," ","a","b","o","u","t"," ","a"," ","p","a","r","t","i","c","u","l","a","r"," ","a","s","p","e","c","t"," ","o","f"," ","t","h","e"," ","i","s","s","u","e",".">>
S_tool_q == <<"T","o","o","l"," ","'">>
S_not_found == <<"'"," ","n","o","t"," ","f","o","u","n","d">>
S_is_disabled == <<"'"," ","i","s"," ","d","i","s","a","b","l","e","d">>
S_validation_failed == <<"P","a","r","a","m","e","t","e","r"," ","v","a","l","i","d","a","t","i","o","n"," ","f","a","i","l","e","d",":"," ">>
S_required_parameter == <<"R","e","q","u","i","r","e","d"," ","p","a","r","a","m","e","t","e","r"," ","'">>
S_is_missing == <<"'"," ","i","s"," ","m","i","s","s","i","n","g">>
S_value_q == <<"V","a","l","u","e"," ","'">>
S_not_in_allowed == <<"'"," ","n","o","t"," ","i","n"," ","a","l","l","o","w","e","d"," ","v","a","l","u","e","s",":"," ">>
\* U+2705 and U+274C, the marks _format_tool_results puts before an entry,
\* each one character of the str
CheckMark == "$"
CrossMark == "%"

\* AgentController._is_new_issue: new_issue_indicators
new_issue_indicators ==
    << <<"n","e","w"," ","p","r","o","b","l","e","m">>,
       <<"d","i","f","f","e","r","e","n","t"," ","i","s","s","u","e">>,
       <<"a","n","o","t","h","e","r"," ","e","r","r","o","r">>,
       <<"s","t","a","r","t"," ","o","v","e","r">>,
       <<"n","e","w"," ","q","u","e","s","t","i","o","n">> >>

\* a trigger list without the phrase "let me check"
investigation_triggers_no_check ==
    << <<"l","e","t"," ","m","e"," ","i","n","v","e","s","t","i","g","a","t","e">>,
       <<"i","'","l","l"," ","e","x","a","m","i","n","e">>,
       <<"l","e","t"," ","m","e"," ","l","o","o","k"," ","a","t">>,
       <<"i"," ","n","e","e","d"," ","t","o"," ","s","e","e">>,
       <<"f","i","r","s","t",","," ","l","e","t"," ","m","e">> >>

\* AgentController._should_start_investigation: investigation_triggers
investigation_triggers ==
    << <<"l","e","t"," ","m","e"," ","i","n","v","e","s","t","i","g","a","t","e">>,
       <<"l","e","t"," ","m","e"," ","c","h","e","c","k">>,
       <<"i","'","l","l"," ","e","x","a","m","i","n","e">>,
       <<"l","e","t"," ","m","e"," ","l","o","o","k"," ","a","t">>,
       <<"i"," ","n","e","e","d"," ","t","o"," ","s","e","e">>,
       <<"f","i","r","s","t",","," ","l","e","t"," ","m","e">> >>

\* "Pod in CrashLoopBackOff" and the other labels _update_context_from_result
\* appends; they are only ever stored and compared, so each is one value
L_crashloop == "Pod in CrashLoopBackOff"
L_app_startup == "application startup"
L_image_pull == "Image pull failure"
L_registry == "container registry"
L_pending == "Pod stuck in Pending"
L_scheduling == "scheduling/resources"

(* ------------------------------ data ----------------------------------- *)
\* llm.provider.Message
Message(role, content) == [role |-> role, content |-> content]

\* the data of a ToolResult: None, a str, or some other object (an empty dict)
NoData == [type |-> "NoneType"]
StrData(s) == [type |-> "str", value |-> s]
DictData == [type |-> "dict"]

\* f"{data}"
data_str(data) ==
    IF data.type = "str" THEN data.value
    ELSE IF data.type = "NoneType" THEN S_None
    ELSE <<"{", "}">>

\* f"{o}" for an Optional[str]
opt_str(o) == IF o = None THEN S_None ELSE o[1]

\* tools.base.ToolResult
ToolResult(success, data, error, tool_name) ==
    [success |-> success, data |-> data, error |-> error, tool_name |-> tool_name]

\* tools.base.ToolParameter
ToolParameter(name, required, enum_values) ==
    [name |-> name, required |-> required, enum_values |-> enum_values]

\* tools.base.Tool: the attributes set by Tool.__init__; cls is the concrete
\* class of the object, which fixes its get_parameters() and execute()
Tool(name, category, cls) ==
    [name |-> name, category |-> category, enabled |-> TRUE, cls |-> cls]

ToolCategory == {"kubernetes", "istio", "observability", "networking", "security"}

\* agent.controller.ConversationContext
ConversationContext(user_query, namespace) ==
    [user_query |-> user_query, symptoms |-> <<>>, cluster_info |-> <<>>,
     namespace |-> namespace, suspected_components |-> <<>>,
     investigation_steps |-> <<>>]

(* --------------------------- Tool (base.py) ---------------------------- *)
\* get_parameters() of the concrete tool classes: name, required, enum_values
get_parameters(cls) ==
    IF cls = "KubectlTool" THEN
        << ToolParameter(S_command, TRUE, None) >>
    ELSE IF cls = "LogsTool" THEN
        << ToolParameter(S_action, TRUE,
                Some(<< <<"g","e","t">>, <<"s","e","a","r","c","h">>, <<"a","n","a","l","y","z","e">>, <<"e","r","r","o","r","s">>, <<"t","a","i","l">> >>)),
           ToolParameter(<<"p","o","d","_","n","a","m","e">>, TRUE, None),
           ToolParameter(S_namespace, FALSE, None),
           ToolParameter(<<"c","o","n","t","a","i","n","e","r">>, FALSE, None),
           ToolParameter(<<"l","i","n","e","s">>, FALSE, None),
           ToolParameter(<<"s","i","n","c","e","_","s","e","c","o","n","d","s">>, FALSE, None),
           ToolParameter(<<"p","a","t","t","e","r","n">>, FALSE, None),
           ToolParameter(<<"c","a","s","e","_","s","e","n","s","i","t","i","v","e">>, FALSE, None) >>
    ELSE IF cls = "ProxyTool" THEN
        << ToolParameter(S_action, TRUE,
                Some(<< <<"s","t","a","t","u","s">>, <<"c","o","n","f","i","g">>, <<"c","l","u","s","t","e","r","s">>, <<"l","i","s","t","e","n","e","r","s">>, <<"s","t","a","t","s">> >>)),
           ToolParameter(<<"p","o","d","_","n","a","m","e">>, FALSE, None),
           ToolParameter(S_namespace, FALSE, None),
           ToolParameter(<<"c","o","n","f","i","g","_","t","y","p","e">>, FALSE,
                Some(<< <<"d","u","m","p">>, <<"c","l","u","s","t","e","r">>, <<"l","i","s","t","e","n","e","r">>, <<"r","o","u","t","e">>, <<"e","n","d","p","o","i","n","t">> >>)),
           ToolParameter(<<"f","o","r","m","a","t">>, FALSE,
                Some(<< <<"j","s","o","n">>, <<"y","a","m","l">>, <<"t","a","b","l","e">> >>)) >>
    ELSE
        << ToolParameter(S_action, TRUE,
                Some(<< <<"v","a","l","i","d","a","t","e">>, <<"l","i","s","t">>, <<"a","n","a","l","y","z","e">>, <<"c","h","e","c","k","_","r","o","u","t","i","n","g">>,
                        <<"c","h","e","c","k","_","s","e","c","u","r","i","t","y">> >>)),
           ToolParameter(S_namespace, FALSE, None),
           ToolParameter(<<"r","e","s","o","u","r","c","e","_","t","y","p","e">>, FALSE,
                Some(<< <<"a","l","l">>, <<"v","i","r","t","u","a","l","s","e","r","v","i","c","e","s">>, <<"d","e","s","t","i","n","a","t","i","o","n","r","u","l","e","s">>, <<"g","a","t","e","w","a","y","s">>,
                        <<"s","e","r","v","i","c","e","e","n","t","r","i","e","s">>, <<"a","u","t","h","o","r","i","z","a","t","i","o","n","p","o","l","i","c","i","e","s">> >>)) >>

\* repr of a list of str: ['a', 'b']
list_repr(xs) ==
    <<"[">> \o join(<<",", " ">>, [i \in 1..Len(xs) |-> <<"'">> \o xs[i] \o <<"'">>])
            \o <<"]">>

\* the dict {p.name: p for p in get_parameters()}
RECURSIVE params_by_name(_)
params_by_name(ps) ==
    IF ps = <<>> THEN <<>>
    ELSE dict_update(<<[k |-> ps[1].name, v |-> ps[1]]>>, params_by_name(Tail(ps)))

\* a validation that forgets the required parameters
required_errors_skipped(errors, parameters, kwargs) == errors

\* first loop of validate_parameters: required parameters
RECURSIVE required_errors(_, _, _)
required_errors(errors, parameters, kwargs) ==
    IF parameters = <<>> THEN errors
    ELSE required_errors(
            IF parameters[1].v.required /\ ~dict_has(kwargs, parameters[1].k)
            THEN dict_set(errors, parameters[1].k,
                          S_required_parameter \o parameters[1].k \o S_is_missing)
            ELSE errors,
            Tail(parameters), kwargs)

\* second loop of validate_parameters: enum values
RECURSIVE enum_errors(_, _, _)
enum_errors(errors, parameters, rest) ==
    IF rest = <<>> THEN errors
    ELSE enum_errors(
            IF /\ dict_has(parameters, rest[1].k)
               /\ dict_get(parameters, rest[1].k).enum_values # None
               /\ dict_get(parameters, rest[1].k).enum_values[1] # <<>>
               /\ \A i \in 1..Len(dict_get(parameters, rest[1].k).enum_values[1]) :
                     dict_get(parameters, rest[1].k).enum_values[1][i] # rest[1].v
            THEN dict_set(errors, rest[1].k,
                          S_value_q \o rest[1].v \o S_not_in_allowed
                            \o list_repr(dict_get(parameters, rest[1].k).enum_values[1]))
            ELSE errors,
            parameters, Tail(rest))

\* the body of Tool.validate_parameters on the list get_parameters() returns
validate(declared, kwargs) ==
    enum_errors(required_errors(<<>>, params_by_name(declared), kwargs),
                params_by_name(declared), kwargs)

\* Tool.validate_parameters
validate_parameters(tool, kwargs) == validate(get_parameters(tool.cls), kwargs)

\* what awaiting tool.execute(**kwargs) does: it returns a ToolResult or raises
Returns(result) == [kind |-> "return", result |-> result]
Raises(msg) == [kind |-> "raise", msg |-> msg]

\* an error text that reports the first validation message only
error_msg_first_only(validation_errors) ==
    validation_errors[1].k \o <<":", " ">> \o validation_errors[1].v

\* "; ".join([f"{k}: {v}" for k, v in validation_errors.items()])
error_msg(validation_errors) ==
    join(<<";", " ">>,
         [i \in 1..Len(validation_errors) |->
            validation_errors[i].k \o <<":", " ">> \o validation_errors[i].v])

\* str(e) of the AttributeError of `result.tool_name = self.name` when execute
\* returned None instead of a ToolResult
S_no_tool_name == <<"'","N","o","n","e","T","y","p","e","'"," ","o","b","j","e","c","t"," ","h","a","s"," ","n","o"," ","a","t","t","r","i","b","u","t","e"," ","'","t","o","o","l","_","n","a","m","e","'">>

\* a wrapper that leaves tool_name as the tool set it
safe_execute_unnamed(tool, kwargs, outcome) ==
    IF outcome.kind = "return" /\ "success" \in DOMAIN outcome.result
    THEN outcome.result
    ELSE ToolResult(FALSE, NoData, Some(<<"f","a","i","l","e","d">>), None)

\* Tool.safe_execute
safe_execute(tool, kwargs, outcome) ==
    IF validate_parameters(tool, kwargs) # <<>>
    THEN ToolResult(FALSE, NoData,
                    Some(S_validation_failed \o error_msg(validate_parameters(tool, kwargs))),
                    Some(tool.name))
    ELSE IF outcome.kind = "return"
    THEN IF "success" \in DOMAIN outcome.result
         THEN [outcome.result EXCEPT !.tool_name = Some(tool.name)]
         ELSE ToolResult(FALSE, NoData, Some(S_no_tool_name), Some(tool.name))
    ELSE ToolResult(FALSE, NoData, Some(outcome.msg), Some(tool.name))

\* whether safe_execute reaches tool.execute
calls_execute(tool, kwargs) == validate_parameters(tool, kwargs) = <<>>

(* ----------------------- ToolRegistry (registry.py) -------------------- *)
\* ToolRegistry.get_tool
get_tool(reg_tools, name) ==
    IF dict_has(reg_tools, name) THEN Some(dict_get(reg_tools, name)) ELSE None

\* an execute_tool whose not-found result names no tool
execute_tool_not_found_unnamed(reg_tools, tool_name, kwargs, outcome) ==
    IF get_tool(reg_tools, tool_name) = None
    THEN ToolResult(FALSE, NoData, Some(S_tool_q \o tool_name \o S_not_found), None)
    ELSE IF ~get_tool(reg_tools, tool_name)[1].enabled
    THEN ToolResult(FALSE, NoData, Some(S_tool_q \o tool_name \o S_is_disabled),
                    Some(tool_name))
    ELSE safe_execute(get_tool(reg_tools, tool_name)[1], kwargs, outcome)

\* ToolRegistry.execute_tool
execute_tool(reg_tools, tool_name, kwargs, outcome) ==
    IF get_tool(reg_tools, tool_name) = None
    THEN ToolResult(FALSE, NoData, Some(S_tool_q \o tool_name \o S_not_found),
                    Some(tool_name))
    ELSE IF ~get_tool(reg_tools, tool_name)[1].enabled
    THEN ToolResult(FALSE, NoData, Some(S_tool_q \o tool_name \o S_is_disabled),
                    Some(tool_name))
    ELSE safe_execute(get_tool(reg_tools, tool_name)[1], kwargs, outcome)

\* a reaches_execute that does not look at the enabled flag
reaches_execute_unguarded(reg_tools, tool_name, kwargs) ==
    /\ get_tool(reg_tools, tool_name) # None
    /\ calls_execute(get_tool(reg_tools, tool_name)[1], kwargs)

\* whether execute_tool reaches the execute of a registered tool
reaches_execute(reg_tools, tool_name, kwargs) ==
    /\ get_tool(reg_tools, tool_name) # None
    /\ get_tool(reg_tools, tool_name)[1].enabled
    /\ calls_execute(get_tool(reg_tools, tool_name)[1], kwargs)

\* create_default_registry: the dict _tools
default_tools ==
    << [k |-> S_kubectl, v |-> Tool(S_kubectl, "kubernetes", "KubectlTool")],
       [k |-> S_logs, v |-> Tool(S_logs, "kubernetes", "LogsTool")],
       [k |-> S_istio_proxy, v |-> Tool(S_istio_proxy, "istio", "ProxyTool")],
       [k |-> S_istio_config, v |-> Tool(S_istio_config, "istio", "ConfigTool")] >>

\* create_default_registry: the dict _categories
default_categories ==
    [c \in ToolCategory |->
        IF c = "kubernetes" THEN {S_kubectl, S_logs}
        ELSE IF c = "istio" THEN {S_istio_proxy, S_istio_config}
        ELSE {}]

\* the orders in which a Python set of names can be iterated
Orderings(names) ==
    { o \in [1..Cardinality(names) -> names] :
        \A i, j \in 1..Cardinality(names) : o[i] = o[j] => i = j }

\* ToolRegistry.list_tools (45-58): the lists it can return; with a category
\* the order is the iteration order of the set _categories[category]
list_tools(tools, categories, category, enabled_only) ==
    LET present(o) == SelectSeq(o, LAMBDA name : dict_has(tools, name))
        found == IF category # None
                 THEN { [i \in 1..Len(present(o)) |-> dict_get(tools, present(o)[i])] :
                          o \in Orderings(categories[category[1]]) }
                 ELSE { [i \in 1..Len(tools) |-> tools[i].v] }
    IN  { IF enabled_only THEN SelectSeq(l, LAMBDA tool : tool.enabled) ELSE l :
            l \in found }

(* ------------------------- the system prompt --------------------------- *)
\* Tool.description of the concrete tool classes.  A text that no operation
\* looks into is held in whole pieces, not character by character: a str is
\* the sequence of its pieces
tool_description(cls) ==
    IF cls = "KubectlTool"
    THEN << "Execute safe kubectl commands to inspect Kubernetes cluster state" >>
    ELSE IF cls = "LogsTool"
    THEN << "Analyze and search Kubernetes pod logs for troubleshooting" >>
    ELSE IF cls = "ProxyTool"
    THEN << "Analyze Istio proxy status, configuration, and health" >>
    ELSE << "Analyze and validate Istio configuration resources" >>

\* f"- {tool.name}: {tool.description} (params: {', '.join(params)})"
tool_info(tool) ==
    LET parameters == get_parameters(tool.cls)
        params == [i \in 1..Len(parameters) |-> parameters[i].name]
    IN  <<"-", " ">> \o tool.name \o <<":", " ">> \o tool_description(tool.cls)
            \o << " (params: " >> \o join(<<",", " ">>, params) \o <<")">>

\* the fixed text of the system prompt before and after the tools
prompt_head ==
    << "You are an expert Kubernetes and Istio troubleshooting assistant. Your goal is to help diagnose and resolve issues systematically.\n",
       "\n",
       "AVAILABLE TOOLS:\n" >>

prompt_tail ==
    << "\n",
       "\n",
       "TROUBLESHOOTING METHODOLOGY:\n",
       "1. **Gather Information**: Always start by understanding the problem and current cluster state\n",
       "2. **Systematic Investigation**: Use tools to collect relevant data before making assumptions\n",
       "3. **Pattern Recognition**: Look for common issues like:\n",
       "   - Pod startup failures (image pull, resource limits, configuration)\n",
       "   - Network connectivity problems (services, endpoints, DNS)\n",
       "   - Istio service mesh issues (proxy status, configuration, routing)\n",
       "   - Resource constraints (CPU, memory, storage)\n",
       "4. **Root Cause Analysis**: Correlate findings to identify the actual cause\n",
       "5. **Solution Recommendation**: Provide clear, actionable steps to resolve issues\n",
       "\n",
       "TOOL USAGE GUIDELINES:\n",
       "- Use kubectl to inspect cluster resources and status\n",
       "- Check pod logs when investigating application issues\n",
       "- Use Istio tools for service mesh related problems\n",
       "- Always verify your findings with multiple data points\n",
       "\n",
       "RESPONSE FORMAT:\n",
       "When using tools, explain:\n",
       "- Why you're using each tool\n",
       "- What you're looking for\n",
       "- What the results indicate\n",
       "- Next steps based on findings\n",
       "\n",
       "Be concise but thorough. Focus on actionable insights." >>

\* AgentController._build_system_prompt (45-81) on the registry as it is
build_system_prompt(tools, categories) ==
    LET listed == CHOOSE l \in list_tools(tools, categories, None, TRUE) : TRUE
        tools_info == [i \in 1..Len(listed) |-> tool_info(listed[i])]
    IN  prompt_head \o join(<<"\n">>, tools_info) \o prompt_tail

(* -------------------- AgentController: pure parts ---------------------- *)
\* a phrase test that forgets to lower-case the input
is_new_issue_case_sensitive(user_input) == contains_any(user_input, new_issue_indicators)

\* AgentController._is_new_issue
is_new_issue(user_input) == contains_any(lower(user_input), new_issue_indicators)

\* AgentController._should_start_investigation
should_start_investigation(llm_response) ==
    contains_any(lower(llm_response), investigation_triggers)

\* one extracted tool call
ToolCall(tool, parameters) == [tool |-> tool, parameters |-> parameters]

kubectl_call(command, namespace) ==
    ToolCall(S_kubectl, << [k |-> S_command, v |-> command],
                           [k |-> S_namespace, v |-> namespace] >>)

\* the istio branch of _extract_tool_calls: line[6:].strip().split(' ', 1)
istio_call(line) ==
    LET parts == split1(strip(slice_from(line, 6)), " ")
        params == << [k |-> S_action, v |-> parts[1]] >>
    IN  ToolCall(S_istio,
                 IF Len(parts) > 1
                 THEN dict_update(params, << [k |-> S_service, v |-> parts[2]] >>)
                 ELSE params)

\* a chain that tries rule 4 on every line, also after rule 2 or 3 matched
line_tool_calls_every_rule(line, namespace) ==
    (IF startswith(line, S_kubectl_prefix)
     THEN << kubectl_call(strip(slice_from(line, 8)), namespace) >>
     ELSE IF startswith(line, S_istio_prefix)
     THEN << istio_call(line) >>
     ELSE <<>>)
    \o (IF contains(lower(line), S_let_me_check) /\ contains(lower(line), S_using)
           /\ contains(lower(line), S_kubectl)
        THEN IF contains(lower(line), S_pods)
             THEN << kubectl_call(S_get_pods, namespace) >>
             ELSE IF contains(lower(line), S_services)
             THEN << kubectl_call(S_get_services, namespace) >>
             ELSE <<>>
        ELSE <<>>)

\* a chain that looks for "services" before "pods"
line_tool_calls_services_first(line, namespace) ==
    IF startswith(line, S_kubectl_prefix)
    THEN << kubectl_call(strip(slice_from(line, 8)), namespace) >>
    ELSE IF startswith(line, S_istio_prefix)
    THEN << istio_call(line) >>
    ELSE IF contains(lower(line), S_let_me_check) /\ contains(lower(line), S_using)
    THEN IF contains(lower(line), S_kubectl)
         THEN IF contains(lower(line), S_services)
              THEN << kubectl_call(S_get_services, namespace) >>
              ELSE IF contains(lower(line), S_pods)
              THEN << kubectl_call(S_get_pods, namespace) >>
              ELSE <<>>
         ELSE <<>>
    ELSE <<>>

\* a chain whose kubectl prefix test ignores case
line_tool_calls_any_case(line, namespace) ==
    IF startswith(lower(line), S_kubectl_prefix)
    THEN << kubectl_call(strip(slice_from(line, 8)), namespace) >>
    ELSE IF startswith(line, S_istio_prefix)
    THEN << istio_call(line) >>
    ELSE IF contains(lower(line), S_let_me_check) /\ contains(lower(line), S_using)
    THEN IF contains(lower(line), S_kubectl)
         THEN IF contains(lower(line), S_pods)
              THEN << kubectl_call(S_get_pods, namespace) >>
              ELSE IF contains(lower(line), S_services)
              THEN << kubectl_call(S_get_services, namespace) >>
              ELSE <<>>
         ELSE <<>>
    ELSE <<>>

\* the if/elif chain of _extract_tool_calls on one line, already stripped:
\* the tool calls it appends (none or one)
line_tool_calls(line, namespace) ==
    IF startswith(line, S_kubectl_prefix)
    THEN << kubectl_call(strip(slice_from(line, 8)), namespace) >>
    ELSE IF startswith(line, S_istio_prefix)
    THEN << istio_call(line) >>
    ELSE IF contains(lower(line), S_let_me_check) /\ contains(lower(line), S_using)
    THEN IF contains(lower(line), S_kubectl)
         THEN IF contains(lower(line), S_pods)
              THEN << kubectl_call(S_get_pods, namespace) >>
              ELSE IF contains(lower(line), S_services)
              THEN << kubectl_call(S_get_services, namespace) >>
              ELSE <<>>
         ELSE <<>>
    ELSE <<>>

\* whether the chain reads self.context.namespace on this line
line_reads_context(line) ==
    line_tool_calls(line, <<>>) # <<>> /\ ~startswith(line, S_istio_prefix)

\* the for loop of _extract_tool_calls over the lines
RECURSIVE lines_tool_calls(_, _)
lines_tool_calls(lines, namespace) ==
    IF lines = <<>> THEN <<>>
    ELSE line_tool_calls(strip(lines[1]), namespace)
            \o lines_tool_calls(Tail(lines), namespace)

\* an extraction that adds the default call to the calls it has found
tool_calls_of_with_default(llm_response, namespace) ==
    LET found == lines_tool_calls(split(llm_response, "\n"), namespace)
    IN  IF should_start_investigation(llm_response)
        THEN found \o << kubectl_call(S_get_pods, namespace) >>
        ELSE found

\* _extract_tool_calls with a context: the list it returns
tool_calls_of(llm_response, namespace) ==
    LET found == lines_tool_calls(split(llm_response, "\n"), namespace)
    IN  IF found = <<>> /\ should_start_investigation(llm_response)
        THEN << kubectl_call(S_get_pods, namespace) >>
        ELSE found

\* an extraction that takes the namespace from the context's user_query
extract_tool_calls_by_query(llm_response, context) ==
    IF context = None
    THEN [raised |-> TRUE, tool_calls |-> <<>>]
    ELSE [raised |-> FALSE, tool_calls |-> tool_calls_of(llm_response, context[1].user_query)]

\* AgentController._extract_tool_calls; with self.context None the first read
\* of self.context.namespace raises AttributeError
extract_tool_calls(llm_response, context) ==
    IF context = None
    THEN IF \/ \E i \in 1..Len(split(llm_response, "\n")) :
                  line_reads_context(strip(split(llm_response, "\n")[i]))
            \/ tool_calls_of(llm_response, <<>>) # lines_tool_calls(split(llm_response, "\n"), <<>>)
         THEN [raised |-> TRUE, tool_calls |-> <<>>]
         ELSE [raised |-> FALSE, tool_calls |-> tool_calls_of(llm_response, <<>>)]
    ELSE [raised |-> FALSE, tool_calls |-> tool_calls_of(llm_response, context[1].namespace)]

\* str(e) of that AttributeError
S_attribute_error == <<"'","N","o","n","e","T","y","p","e","'"," ","o","b","j","e","c","t"," ","h","a","s"," ","n","o"," ","a","t","t","r","i","b","u","t","e"," ","'","n","a","m","e","s","p","a","c","e","'">>

\* the number of lines of lines[1:] that contain "running", case-insensitively
RECURSIVE running_count(_)
running_count(lines) ==
    IF lines = <<>> THEN 0
    ELSE (IF contains(lower(lines[1]), S_running) THEN 1 ELSE 0) + running_count(Tail(lines))

\* findings that are appended only when the list does not hold them yet
with_findings_deduplicated(ctx, data) ==
    LET new(c, symptom, component) ==
            IF \E i \in 1..Len(c.symptoms) : c.symptoms[i] = symptom THEN c
            ELSE [c EXCEPT !.symptoms = Append(@, symptom),
                           !.suspected_components = Append(@, component)]
        c1 == IF contains(data, S_crashloopbackoff)
              THEN new(ctx, L_crashloop, L_app_startup) ELSE ctx
        c2 == IF contains(data, S_imagepullbackoff) \/ contains(data, S_errimagepull)
              THEN new(c1, L_image_pull, L_registry) ELSE c1
    IN  IF contains(data, S_pending) THEN new(c2, L_pending, L_scheduling) ELSE c2

\* findings whose Pending block forgets the suspected component
with_findings_symptom_only(ctx, data) ==
    LET c1 == IF contains(data, S_crashloopbackoff)
              THEN [ctx EXCEPT !.symptoms = Append(@, L_crashloop),
                               !.suspected_components = Append(@, L_app_startup)]
              ELSE ctx
        c2 == IF contains(data, S_imagepullbackoff) \/ contains(data, S_errimagepull)
              THEN [c1 EXCEPT !.symptoms = Append(@, L_image_pull),
                              !.suspected_components = Append(@, L_registry)]
              ELSE c1
    IN  IF contains(data, S_pending)
        THEN [c2 EXCEPT !.symptoms = Append(@, L_pending)]
        ELSE c2

\* the three `if` blocks of _update_context_from_result on data.lower()
with_findings(ctx, data) ==
    LET c1 == IF contains(data, S_crashloopbackoff)
              THEN [ctx EXCEPT !.symptoms = Append(@, L_crashloop),
                               !.suspected_components = Append(@, L_app_startup)]
              ELSE ctx
        c2 == IF contains(data, S_imagepullbackoff) \/ contains(data, S_errimagepull)
              THEN [c1 EXCEPT !.symptoms = Append(@, L_image_pull),
                              !.suspected_components = Append(@, L_registry)]
              ELSE c1
    IN  IF contains(data, S_pending)
        THEN [c2 EXCEPT !.symptoms = Append(@, L_pending),
                        !.suspected_components = Append(@, L_scheduling)]
        ELSE c2

\* a pod_health block that counts the header line as a row
with_pod_health_header_counted(ctx, text) ==
    LET lines == split(text, "\n")
    IN  IF Len(lines) > 1
        THEN [ctx EXCEPT !.cluster_info =
                dict_set(@, S_pod_health,
                         int_str(running_count(lines)) \o <<"/">>
                            \o int_str(Len(lines)) \o S_running_suffix)]
        ELSE ctx

\* the pod_health block of _update_context_from_result
with_pod_health(ctx, text) ==
    LET lines == split(text, "\n")
    IN  IF Len(lines) > 1
        THEN [ctx EXCEPT !.cluster_info =
                dict_set(@, S_pod_health,
                         int_str(running_count(Tail(lines))) \o <<"/">>
                            \o int_str(Len(lines) - 1) \o S_running_suffix)]
        ELSE ctx

\* an update that takes the text result of any tool
update_context_from_any_tool(context, tool_name, result) ==
    IF ~result.success \/ context = None THEN context
    ELSE IF result.data.type = "str"
    THEN Some(with_pod_health(with_findings(context[1], lower(result.data.value)),
                              result.data.value))
    ELSE context

\* AgentController._update_context_from_result: the new self.context
update_context_from_result(context, tool_name, result) ==
    IF ~result.success \/ context = None THEN context
    ELSE IF tool_name = S_kubectl /\ result.data.type = "str"
    THEN Some(with_pod_health(with_findings(context[1], lower(result.data.value)),
                              result.data.value))
    ELSE context

\* one entry of _format_tool_results
format_tool_result(result) ==
    IF result.success
    THEN <<CheckMark, " ">> \o opt_str(result.tool_name) \o S_executed_successfully
            \o data_str(result.data)
    ELSE <<CrossMark, " ">> \o opt_str(result.tool_name) \o S_failed
            \o opt_str(result.error)

\* a rendering with the newest result first
format_tool_results_reversed(results) ==
    join(<<"\n", "\n">>,
         [i \in 1..Len(results) |-> format_tool_result(results[Len(results) + 1 - i])])

\* AgentController._format_tool_results
format_tool_results(results) ==
    join(<<"\n", "\n">>, [i \in 1..Len(results) |-> format_tool_result(results[i])])

\* the history trim of process_query: h[-n:] when len(h) > 2 * n
last_messages(h, n) ==
    IF n = 0 THEN h
    ELSE IF n >= Len(h) THEN h
    ELSE SubSeq(h, Len(h) - n + 1, Len(h))

\* a trim that starts the history afresh at a query that names a new issue
trim_history_new_issue(h, conversation_memory) ==
    IF is_new_issue(h[Len(h)].content) THEN << h[Len(h)] >>
    ELSE IF Len(h) > conversation_memory * 2 THEN last_messages(h, conversation_memory)
    ELSE h

\* a trim that tolerates one message more
trim_history_late(h, conversation_memory) ==
    IF Len(h) > conversation_memory * 2 + 1 THEN last_messages(h, conversation_memory) ELSE h

trim_history(h, conversation_memory) ==
    IF Len(h) > conversation_memory * 2 THEN last_messages(h, conversation_memory) ELSE h

\* the guard of the context initialisation of process_query
needs_new_context(context, user_input) == context = None \/ is_new_issue(user_input)

\* a while loop that runs once more than the budget
loop_continues_inclusive(iteration, max_iterations) == iteration <= max_iterations

\* the condition of the while loop of process_query
loop_continues(iteration, max_iterations) == iteration < max_iterations

\* the return values of process_query
FinalAnswer(content) == [kind |-> "answer", text |-> content]
LimitReached == [kind |-> "limit", text |-> S_limit_message]
ErrorReturn(msg) == [kind |-> "error", text |-> S_error_prefix \o msg \o S_error_suffix]

\* AgentController.get_conversation_summary
get_conversation_summary(history, context) ==
    [message_count |-> Len(history),
     context |-> context,
     last_message |-> IF history # <<>> THEN Some(history[Len(history)].content) ELSE None]

(* ------------------------------ inputs --------------------------------- *)
\* process_query(user_input, namespace) calls made by the front end
Queries ==
    { [text |-> <<"h","i">>, namespace |-> <<"d","e","f","a","u","l","t">>],
      [text |-> <<"S","t","a","r","t"," ","O","v","e","r">>, namespace |-> <<"p","r","o","d">>] }

\* the content of the LLM's responses
Responses ==
    { <<"o","k">>,
      <<"i","s","t","i","o"," ","s","t","a","t","u","s","\n","k","u","b","e","c","t","l"," ","g","e","t"," ","p","o","d","s">> }

\* the messages of the exceptions chat_completion raises
LLMErrors == { <<"t","i","m","e","o","u","t">> }

\* what the execute of a tool does when it is awaited: it returns a success
\* result, returns a failure result of its own, or raises
Outcomes ==
    { Returns(ToolResult(TRUE, StrData(<<"N","\n","a"," ","R","u","n","n","i","n","g","\n","b"," ","P","e","n","d","i","n","g">>), None, None)),
      Returns(ToolResult(FALSE, NoData, Some(<<"d","e","n","i","e","d">>), None)),
      Raises(<<"b","o","o","m">>) }

(* --------------------------- state machine ----------------------------- *)
VARIABLES
    max_iterations,        \* AgentController.max_iterations
    conversation_memory,   \* AgentController.conversation_memory
    system_prompt,         \* AgentController.system_prompt
    conversation_history,  \* AgentController.conversation_history
    context,               \* AgentController.context (Optional)
    reg_tools,             \* ToolRegistry._tools
    reg_categories,        \* ToolRegistry._categories
    pc,                    \* where the process_query call in flight stands:
                           \*   "idle" none, "loop" at the while test,
                           \*   "llm" awaiting chat_completion,
                           \*   "tools" awaiting execute_tool in _execute_tools
    user_input,            \* process_query: user_input
    iteration,             \* process_query: iteration
    response,              \* process_query: response.content (Optional)
    tool_calls,            \* process_query: tool_calls
    results,               \* _execute_tools: results
    messages,              \* process_query: the messages of the chat_completion
                           \*   call that is awaited, <<>> when none is
    returned,              \* what the last completed call on the controller returned
    llm_calls,             \* chat_completion calls made by the current process_query
    invoked,               \* tool calls handed to execute_tool in the current round
    executed,              \* those of them that reached the tool's execute
    turns,                 \* process_query calls made so far
    probe                  \* a call made on a Tool, the ToolRegistry or the
                           \* extractor by a caller other than the loop

config == <<max_iterations, conversation_memory, system_prompt>>
registry == <<reg_tools, reg_categories>>
session == <<conversation_history, context>>
frame == <<pc, user_input, iteration, response, tool_calls, results, messages>>
ghost == <<llm_calls, invoked, executed, turns>>
vars == <<config, registry, session, frame, returned, ghost, probe>>

NoReturn == [kind |-> "none", text |-> <<>>]

\* no such call is made
NoProbe == [op |-> "none"]

\* the locals of process_query are gone when it has returned
NoFrame ==
    /\ pc' = "idle"
    /\ user_input' = <<>>
    /\ iteration' = 0
    /\ response' = None
    /\ tool_calls' = <<>>
    /\ results' = <<>>
    /\ messages' = <<>>
    /\ llm_calls' = 0
    /\ invoked' = <<>>
    /\ executed' = <<>>

ResetReturn == [kind |-> "reset", text |-> <<>>]

\* AgentController.__init__ on a registry from create_default_registry
Init ==
    /\ max_iterations \in 0..MaxIter
    /\ conversation_memory \in 0..MaxMem
    /\ conversation_history = <<>>
    /\ context = None
    /\ reg_tools = default_tools
    /\ reg_categories = default_categories
    /\ system_prompt = build_system_prompt(reg_tools, reg_categories)
    /\ pc = "idle"
    /\ user_input = <<>>
    /\ iteration = 0
    /\ response = None
    /\ tool_calls = <<>>
    /\ results = <<>>
    /\ messages = <<>>
    /\ returned = NoReturn
    /\ llm_calls = 0
    /\ invoked = <<>>
    /\ executed = <<>>
    /\ turns = 0
    /\ probe = NoProbe

\* process_query up to the while loop (controller.py 83-108)
ProcessQuery(q) ==
    /\ pc = "idle"
    /\ turns < MaxTurns
    /\ Len(conversation_history) <= MaxHist
    /\ conversation_history' =
          trim_history(Append(conversation_history, Message("user", q.text)),
                       conversation_memory)
    /\ context' = IF needs_new_context(context, q.text)
                  THEN Some(ConversationContext(q.text, q.namespace))
                  ELSE context
    /\ user_input' = q.text
    /\ iteration' = 0
    /\ response' = None
    /\ pc' = "loop"
    /\ llm_calls' = 0
    /\ turns' = turns + 1
    /\ UNCHANGED <<config, registry, probe, tool_calls, results, messages, returned,
                   invoked, executed>>

\* a prompt whose system message is built anew from the registry
prompt_messages_rebuilt(prompt, history) ==
    << Message("system", build_system_prompt(reg_tools, reg_categories)) >> \o history

\* messages = [Message("system", self.system_prompt)] + self.conversation_history
prompt_messages(prompt, history) == << Message("system", prompt) >> \o history

\* the while test holds: build the messages and call chat_completion (109-116)
CallLLM ==
    /\ pc = "loop"
    /\ loop_continues(iteration, max_iterations)
    /\ pc' = "llm"
    /\ response' = None
    /\ messages' = prompt_messages(system_prompt, conversation_history)
    /\ llm_calls' = llm_calls + 1
    /\ UNCHANGED <<config, registry, probe, session, user_input, iteration, tool_calls,
                   results, returned, invoked, executed, turns>>

\* a limit return that starts the session afresh
limit_return_cleared(history, ctx) == <<<<>>, None, LimitReached>>

\* the while test fails: return the limit message (143-146)
limit_return(history, ctx) == <<history, ctx, LimitReached>>

ReturnLimit ==
    /\ pc = "loop"
    /\ ~loop_continues(iteration, max_iterations)
    /\ NoFrame
    /\ conversation_history' = limit_return(conversation_history, context)[1]
    /\ context' = limit_return(conversation_history, context)[2]
    /\ returned' = limit_return(conversation_history, context)[3]
    /\ UNCHANGED <<config, registry, probe, turns>>

\* a final-answer branch that does not record the answer
final_answer_unrecorded(history, content) == <<history, FinalAnswer(content)>>

\* the final-answer branch (134-137): the new history and the return value
final_answer(history, content) ==
    <<Append(history, Message("assistant", content)), FinalAnswer(content)>>

\* chat_completion returns: extract the tool calls, then either start the tool
\* round or return the final answer (116-124, 134-137); a raise of
\* _extract_tool_calls ends in the except clause (139-141)
LLMReturns(content) ==
    /\ pc = "llm"
    /\ LET ext == extract_tool_calls(content, context)
       IN  IF ext.raised
           THEN /\ NoFrame
                /\ returned' = ErrorReturn(S_attribute_error)
                /\ UNCHANGED session
           ELSE IF ext.tool_calls # <<>>
           THEN /\ pc' = "tools"
                /\ response' = Some(content)
                /\ tool_calls' = ext.tool_calls
                /\ results' = <<>>
                /\ messages' = <<>>
                /\ invoked' = <<>>
                /\ executed' = <<>>
                /\ UNCHANGED <<session, returned, user_input, iteration, llm_calls>>
           ELSE /\ NoFrame
                /\ conversation_history' = final_answer(conversation_history, content)[1]
                /\ returned' = final_answer(conversation_history, content)[2]
                /\ UNCHANGED context
    /\ UNCHANGED <<config, registry, probe, turns>>

\* an except clause that rolls the history back to the user's query
llm_failure_rolled_back(history, ctx, msg) ==
    <<SubSeq(history, 1, 1), ctx, ErrorReturn(msg)>>

\* an except clause that re-raises to the caller
llm_failure_reraised(history, ctx, msg) == <<history, ctx, [kind |-> "raise", text |-> msg]>>

\* the except clause of the loop (139-141): the new history, context, return value
llm_failure(history, ctx, msg) == <<history, ctx, ErrorReturn(msg)>>

\* chat_completion raises
LLMRaises(msg) ==
    /\ pc = "llm"
    /\ NoFrame
    /\ conversation_history' = llm_failure(conversation_history, context, msg)[1]
    /\ context' = llm_failure(conversation_history, context, msg)[2]
    /\ returned' = llm_failure(conversation_history, context, msg)[3]
    /\ UNCHANGED <<config, registry, probe, turns>>

\* execute_tool returns without awaiting any tool's execute
NoOutcome == Raises(<<>>)

\* a for loop that a failed result breaks
more_tool_calls_until_failure(res, calls) ==
    Len(res) < Len(calls) /\ (IF res = <<>> THEN TRUE ELSE res[Len(res)].success)

\* the for loop of _execute_tools goes on after the results gathered so far
more_tool_calls(res, calls) == Len(res) < Len(calls)

\* the two messages a tool round appends (127-131)
round_messages(content, res) ==
    << Message("assistant", content),
       Message("user", S_tool_results \o format_tool_results(res)) >>

\* one pass of the for loop of _execute_tools (224-235): the awaited
\* execute_tool returns; after the last pass the round is closed (127-133)
ExecuteTool(outcome) ==
    /\ pc = "tools"
    /\ more_tool_calls(results, tool_calls)
    /\ IF reaches_execute(reg_tools, tool_calls[Len(results) + 1].tool,
                          tool_calls[Len(results) + 1].parameters)
       THEN outcome \in Outcomes
       ELSE outcome = NoOutcome
    /\ results' = Append(results,
                         execute_tool(reg_tools, tool_calls[Len(results) + 1].tool,
                                      tool_calls[Len(results) + 1].parameters, outcome))
    /\ context' = update_context_from_result(context, tool_calls[Len(results')].tool,
                                             results'[Len(results')])
    /\ invoked' = Append(invoked, tool_calls[Len(results')])
    /\ executed' = IF outcome # NoOutcome
                   THEN Append(executed, tool_calls[Len(results')])
                   ELSE executed
    /\ IF more_tool_calls(results', tool_calls)
       THEN /\ pc' = "tools"
            /\ UNCHANGED <<conversation_history, iteration>>
       ELSE /\ pc' = "loop"
            /\ conversation_history' =
                  conversation_history \o round_messages(response[1], results')
            /\ iteration' = iteration + 1
    /\ UNCHANGED <<config, registry, probe, user_input, response, tool_calls, messages,
                   returned, llm_calls, turns>>

\* a reset that keeps the context
reset_conversation_history_only(history, ctx) == <<<<>>, ctx>>

\* AgentController.reset_conversation (300-304)
reset_conversation(history, ctx) == <<<<>>, None>>

ResetConversation ==
    /\ pc = "idle"
    /\ conversation_history' = reset_conversation(conversation_history, context)[1]
    /\ context' = reset_conversation(conversation_history, context)[2]
    /\ returned' = ResetReturn
    /\ UNCHANGED <<config, registry, probe, frame, ghost>>

Next ==
    \/ \E q \in Queries : ProcessQuery(q)
    \/ CallLLM
    \/ ReturnLimit
    \/ \E content \in Responses : LLMReturns(content)
    \/ \E msg \in LLMErrors : LLMRaises(msg)
    \/ \E outcome \in Outcomes \cup {NoOutcome} : ExecuteTool(outcome)
    \/ ResetConversation

Spec == Init /\ [][Next]_vars

\* The cooperative task of a process_query call is scheduled until the call
\* returns, and an awaited chat_completion or execute_tool comes back.  Answered
\* is enabled in exactly the states with a call in flight (one of its steps is
\* possible at each of "loop", "llm" and "tools"), and each of its steps is a step
\* of the call, so weak fairness of Answered excludes the behaviours that wait
\* forever and nothing else.
Answered ==
    \/ CallLLM
    \/ ReturnLimit
    \/ \E msg \in LLMErrors : LLMRaises(msg)
    \/ \E outcome \in {o \in Outcomes : o.kind = "raise"} \cup {NoOutcome} :
          ExecuteTool(outcome)

FairSpec == Spec /\ WF_vars(Answered)

(* ------------------------------ claims --------------------------------- *)
\* a process_query call returns in this step
Returning == pc # "idle" /\ pc' = "idle"

\* C1: a turn makes at most max_iterations LLM calls; a turn in which every
\* LLM call was answered by a tool round (iteration = llm_calls when it
\* returns) has made exactly max_iterations calls and returns the limit
\* message, and no other turn returns the limit message.
C1_IterationBudget ==
    /\ [](llm_calls <= max_iterations)
    /\ [][Returning =>
            IF iteration = llm_calls
            THEN returned' = LimitReached /\ llm_calls = max_iterations
            ELSE returned'.kind # "limit"]_vars

C1_Witness ==
    /\ pc = "loop" /\ max_iterations = 2
    /\ iteration = 2 /\ llm_calls = 2

\* C2: a process_query call in flight returns, and what it returns is the
\* final answer, the limit message or the error string, never an exception.
C2_Outcomes ==
    /\ [][Returning =>
            \/ returned'.kind = "answer" /\ pc = "llm"
            \/ returned' = LimitReached
            \/ /\ returned'.kind = "error"
               /\ startswith(returned'.text, S_error_prefix)]_vars
    /\ (pc # "idle") ~> (pc = "idle")

C2_Witness ==
    /\ pc = "idle" /\ returned.kind = "error" /\ turns = 2

\* C3: when the Extractor yields no tool call for a response, the turn ends in
\* that step: the response is appended as one assistant Message, which is the
\* last message of the history (and of the summary), the context is untouched,
\* no tool is executed and process_query returns exactly the response content.
C3_FinalAnswer ==
    [][\A content \in Responses :
         (LLMReturns(content) /\ ~extract_tool_calls(content, context).raised
            /\ extract_tool_calls(content, context).tool_calls = <<>>)
         => /\ pc' = "idle"
            /\ conversation_history' =
                  Append(conversation_history, [role |-> "assistant", content |-> content])
            /\ get_conversation_summary(conversation_history', context').last_message
                  = Some(content)
            /\ returned' = [kind |-> "answer", text |-> content]
            /\ context' = context
            /\ executed' = <<>> /\ invoked' = <<>>]_vars

C3_Witness ==
    /\ pc = "idle" /\ returned.kind = "answer"
    /\ Len(conversation_history) >= 2
    /\ conversation_history[Len(conversation_history)]
          = [role |-> "assistant", content |-> returned.text]

\* the entry of the tool-results message for one call and its result
C4_Entry(call, result) ==
    IF result.success
    THEN <<CheckMark, " ">> \o call.tool \o S_executed_successfully \o data_str(result.data)
    ELSE <<CrossMark, " ">> \o call.tool \o S_failed \o opt_str(result.error)

\* a step of the tool round
ToolRoundStep == \E outcome \in Outcomes \cup {NoOutcome} : ExecuteTool(outcome)

\* C4: in a tool round the registry is invoked once per extracted call, one
\* call per step and in the order of the extraction; the round is closed by the
\* step of the last call, which appends the assistant Message with the raw
\* response and then one user Message holding one entry per call, in the same
\* order, each tagged with the tool name of its call.
C4_ToolRound ==
    [][ToolRoundStep =>
         /\ invoked' = Append(invoked, tool_calls[Len(invoked) + 1])
         /\ Len(results') = Len(invoked')
         /\ IF Len(invoked') < Len(tool_calls)
            THEN pc' = "tools" /\ conversation_history' = conversation_history
            ELSE /\ pc' = "loop"
                 /\ invoked' = tool_calls
                 /\ conversation_history' =
                       conversation_history \o
                       << [role |-> "assistant", content |-> response[1]],
                          [role |-> "user",
                           content |-> S_tool_results \o
                              join(<<"\n", "\n">>,
                                   [i \in 1..Len(tool_calls) |->
                                      C4_Entry(tool_calls[i], results'[i])])] >>]_vars

C4_Witness ==
    /\ pc = "loop" /\ iteration = 1
    /\ Len(tool_calls) = 2 /\ invoked = tool_calls /\ Len(results) = 2
    /\ tool_calls[1].tool # tool_calls[2].tool
    /\ Len(conversation_history) = 3

\* C5: a tool call that ends in a failure, be it a failure result or an
\* exception of the tool, adds exactly one failure entry for that call; the
\* round goes on with the next call, and after the last call the turn goes
\* back to the loop test rather than return the error string.
C5_FailureIsolated ==
    [][(ToolRoundStep /\ ~results'[Len(results')].success) =>
         /\ results' = Append(results, results'[Len(results')])
         /\ results'[Len(results')].error # None
         /\ results'[Len(results')].tool_name = Some(tool_calls[Len(results')].tool)
         /\ returned' = returned
         /\ IF Len(results') < Len(tool_calls)
            THEN pc' = "tools"
            ELSE pc' = "loop" /\ iteration' = iteration + 1 /\ invoked' = tool_calls]_vars

C5_Witness ==
    /\ pc = "loop" /\ Len(results) = 2
    /\ ~results[1].success /\ results[2].success
    /\ Len(executed) = 1 /\ executed[1] = tool_calls[2]

\* C6: when chat_completion raises, process_query returns the error string in
\* that step: no Message is appended, the context is unchanged, no further LLM
\* call or tool call is made, and the history still holds the user's query
\* followed by the two Messages of every tool round of the turn.
C6_LLMFailure ==
    [][\A msg \in LLMErrors :
         LLMRaises(msg)
         => /\ pc' = "idle"
            /\ returned' = [kind |-> "error", text |-> S_error_prefix \o msg \o S_error_suffix]
            /\ conversation_history' = conversation_history
            /\ context' = context
            /\ Len(conversation_history') >= 2 * iteration + 1
            /\ conversation_history'[Len(conversation_history') - 2 * iteration]
                  = [role |-> "user", content |-> user_input]]_vars

C6_Witness ==
    /\ pc = "idle" /\ returned.kind = "error"
    /\ turns = 1 /\ Len(conversation_history) = 3
    /\ context # None /\ context[1].symptoms # <<>>

\* s is a suffix of t
IsSuffix(s, t) == Len(s) <= Len(t) /\ s = SubSeq(t, Len(t) - Len(s) + 1, Len(t))

\* C7: the return of the limit message changes neither the history nor the
\* context; the next process_query starts a new loop (iteration 0) on that
\* history with its own user Message appended, and on that context unless the
\* text announces a new issue.
C7_LimitKeepsSession ==
    /\ [][ReturnLimit =>
            /\ returned' = LimitReached
            /\ conversation_history' = conversation_history
            /\ context' = context]_vars
    /\ [][\A q \in Queries :
            (ProcessQuery(q) /\ returned = LimitReached)
            => /\ pc' = "loop" /\ iteration' = 0 /\ llm_calls' = 0
               /\ conversation_history' # <<>>
               /\ IsSuffix(conversation_history',
                           Append(conversation_history,
                                  [role |-> "user", content |-> q.text]))
               /\ (~contains_any(lower(q.text), new_issue_indicators)
                     => context' = context)]_vars

C7_Witness ==
    /\ pc = "llm" /\ returned = LimitReached /\ turns = 2
    /\ Len(conversation_history) >= 4
    /\ context # None /\ context[1].symptoms # <<>>

\* C8: after process_query has appended the user Message, a history of more
\* than 2 * conversation_memory messages becomes its most recent
\* conversation_memory messages, oldest first, and a shorter one is unchanged.
C8_Truncation ==
    [][\A q \in Queries :
         ProcessQuery(q)
         => LET h == Append(conversation_history, [role |-> "user", content |-> q.text])
                m == conversation_memory
            IN  IF Len(h) > 2 * m
                THEN conversation_history' = [i \in 1..m |-> h[Len(h) - m + i]]
                ELSE conversation_history' = h]_vars

\* C8, as the code behaves: the slice h[-m:] is the whole of h when m = 0, so
\* a controller with conversation_memory = 0 keeps every message; for m >= 1
\* the history is cut to its most recent m messages as stated.
C8_AsCoded ==
    [][\A q \in Queries :
         ProcessQuery(q)
         => LET h == Append(conversation_history, [role |-> "user", content |-> q.text])
                m == conversation_memory
            IN  IF Len(h) > 2 * m /\ m >= 1
                THEN conversation_history' = [i \in 1..m |-> h[Len(h) - m + i]]
                ELSE conversation_history' = h]_vars

\* a second call on a controller with conversation_memory = 0 has started and
\* the history still holds the messages of the first
C8_Witness ==
    /\ pc = "loop" /\ conversation_memory = 0 /\ turns = 2
    /\ Len(conversation_history) >= 3
    /\ conversation_history[Len(conversation_history)]
          = [role |-> "user", content |-> user_input]

\* the ConversationContext a call process_query(text, namespace) starts afresh
C9_Fresh(q) ==
    [user_query |-> q.text, symptoms |-> <<>>, cluster_info |-> <<>>,
     namespace |-> q.namespace, suspected_components |-> <<>>,
     investigation_steps |-> <<>>]

\* C9: process_query replaces the context by a fresh one exactly when there is
\* none or the text contains, case-insensitively, a new-issue phrase; otherwise
\* the context is kept as it is.
C9_ContextReplacement ==
    [][\A q \in Queries :
         ProcessQuery(q)
         => IF context = None \/ contains_any(lower(q.text), new_issue_indicators)
            THEN context' = Some(C9_Fresh(q))
            ELSE context' = context]_vars

C9_Witness ==
    /\ pc = "loop" /\ turns = 2
    /\ contains(lower(user_input), new_issue_indicators[4])
    /\ ~contains(user_input, new_issue_indicators[4])
    /\ context = Some(C9_Fresh([text |-> user_input, namespace |-> context[1].namespace]))
    /\ Len(conversation_history) >= 4

MaxClock == 2
\* the most keyword arguments of a call
MaxArgs == 2

\* the variables of the controller
controller == <<config, session, frame, returned, ghost>>

\* no controller takes part: its variables stay as constructed
NoController ==
    /\ max_iterations = 0
    /\ conversation_memory = 0
    /\ system_prompt = <<>>
    /\ conversation_history = <<>>
    /\ context = None
    /\ pc = "idle"
    /\ user_input = <<>>
    /\ iteration = 0
    /\ response = None
    /\ tool_calls = <<>>
    /\ results = <<>>
    /\ messages = <<>>
    /\ returned = NoReturn
    /\ llm_calls = 0
    /\ invoked = <<>>
    /\ executed = <<>>
    /\ turns = 0

\* ToolRegistry.__init__
EmptyRegistry ==
    /\ reg_tools = <<>>
    /\ reg_categories = [c \in ToolCategory |-> {}]

\* names and values of keyword arguments
GET == <<"g","e","t">>
BOGUS == <<"b","o","g","u","s">>
POD_NAME == <<"p","o","d","_","n","a","m","e">>
FORMAT == <<"f","o","r","m","a","t">>
XML == <<"x","m","l">>

\* keyword arguments a caller passes, one (name, value) each
ArgPairs ==
    { [k |-> S_command, v |-> S_get_pods],
      [k |-> S_action, v |-> GET],
      [k |-> S_action, v |-> BOGUS],
      [k |-> POD_NAME, v |-> <<"p">>],
      [k |-> FORMAT, v |-> XML],
      [k |-> <<"z","z">>, v |-> <<"1">>] }

\* the **kwargs of a call: names are distinct, the order is the caller's
ToolKwargs ==
    { kw \in UNION { [1..n -> ArgPairs] : n \in 0..MaxArgs } :
        \A i, j \in 1..Len(kw) : kw[i].k = kw[j].k => i = j }

\* the tool objects create_default_registry constructs
ToolObjects == { default_tools[i].v : i \in 1..Len(default_tools) }

\* get_parameters() lists: those of the four tools, an empty one, and one
\* with an optional parameter whose enum_values is the empty list
Declarations ==
    { get_parameters(t.cls) : t \in ToolObjects }
    \cup { <<>>,
           << ToolParameter(S_action, FALSE, Some(<< GET >>)),
              ToolParameter(FORMAT, FALSE, Some(<<>>)),
              ToolParameter(POD_NAME, TRUE, None) >> }

\* what awaiting execute does, a return of None instead of a ToolResult included
ToolOutcomes == Outcomes \cup { Returns(NoData) }

\* the result as safe_execute returns it: execution_time is the difference of
\* two readings of time.time() (base.py 134, 146, 155, 167)
stamped(result, start_time, end_time) ==
    [success |-> result.success, data |-> result.data, error |-> result.error,
     tool_name |-> result.tool_name, execution_time |-> end_time - start_time]

\* a call tool.safe_execute(**kwargs) about to be made
SafeExecuteCall(tool, kwargs) ==
    [op |-> "safe_execute", tool |-> tool, kwargs |-> kwargs, phase |-> "called",
     start_time |-> 0, executions |-> 0, result |-> None]

\* a call validate_parameters(**kwargs) on a tool with the declared list
ValidateCall(declared, kwargs) ==
    [op |-> "validate_parameters", declared |-> declared, kwargs |-> kwargs,
     phase |-> "called", errors |-> None]

ToolInit ==
    /\ NoController
    /\ EmptyRegistry
    /\ probe \in { SafeExecuteCall(t, kw) : t \in ToolObjects, kw \in ToolKwargs }
                 \cup { ValidateCall(d, kw) : d \in Declarations, kw \in ToolKwargs }

\* Tool.validate_parameters is called and returns
ValidateParameters ==
    /\ probe.op = "validate_parameters"
    /\ probe.phase = "called"
    /\ probe' = [probe EXCEPT !.phase = "returned",
                              !.errors = Some(validate(probe.declared, probe.kwargs))]
    /\ UNCHANGED <<controller, registry>>

\* safe_execute up to the await of execute (base.py 133-151): with validation
\* errors it returns, otherwise execute is entered
SafeExecuteBegins ==
    /\ probe.op = "safe_execute"
    /\ probe.phase = "called"
    /\ \E start_time \in 0..MaxClock :
          IF validate_parameters(probe.tool, probe.kwargs) # <<>>
          THEN \E end_time \in start_time..MaxClock :
                  probe' = [probe EXCEPT
                              !.phase = "returned",
                              !.start_time = start_time,
                              !.result = Some(stamped(safe_execute(probe.tool, probe.kwargs, NoOutcome),
                                                      start_time, end_time))]
          ELSE probe' = [probe EXCEPT !.phase = "executing",
                                      !.start_time = start_time,
                                      !.executions = @ + 1]
    /\ UNCHANGED <<controller, registry>>

\* the awaited execute returns or raises and safe_execute returns (151-168)
SafeExecuteEnds(outcome) ==
    /\ probe.op = "safe_execute"
    /\ probe.phase = "executing"
    /\ \E end_time \in probe.start_time..MaxClock :
          probe' = [probe EXCEPT
                      !.phase = "returned",
                      !.result = Some(stamped(safe_execute(probe.tool, probe.kwargs, outcome),
                                              probe.start_time, end_time))]
    /\ UNCHANGED <<controller, registry>>

ToolNext ==
    \/ ValidateParameters
    \/ SafeExecuteBegins
    \/ \E outcome \in ToolOutcomes : SafeExecuteEnds(outcome)

ToolSpec == ToolInit /\ [][ToolNext]_vars

\* the fields of a ToolResult as safe_execute returns it
ToolResultFields == {"success", "data", "error", "tool_name", "execution_time"}

\* a safe_execute call returns in this step
SafeExecuteReturns ==
    probe.op = "safe_execute" /\ probe.phase # "returned" /\ probe'.phase = "returned"

\* C11: safe_execute returns a ToolResult whatever the keyword arguments and
\* whatever execute does: every step that ends the call, with validation
\* errors or after any behaviour of execute, leaves a ToolResult that carries
\* the tool's name and an execution_time >= 0; when execute raised it is a
\* failure whose error is the exception's message, and when execute returned
\* a ToolResult it is that result with tool_name and execution_time stamped on.
C11_SafeExecuteNeverRaises ==
    /\ [][(probe.op = "safe_execute" /\ probe.phase # probe'.phase)
            => \/ probe.phase = "called" /\ probe'.phase \in {"executing", "returned"}
               \/ probe.phase = "executing" /\ probe'.phase = "returned"]_vars
    /\ [][SafeExecuteReturns =>
            /\ probe'.result # None
            /\ DOMAIN probe'.result[1] = ToolResultFields
            /\ probe'.result[1].success \in BOOLEAN
            /\ probe'.result[1].tool_name = Some(probe.tool.name)
            /\ probe'.result[1].execution_time >= 0]_vars
    /\ [][\A outcome \in ToolOutcomes :
            SafeExecuteEnds(outcome) =>
               IF outcome.kind = "raise"
               THEN /\ ~probe'.result[1].success
                    /\ probe'.result[1].error = Some(outcome.msg)
               ELSE IF "success" \in DOMAIN outcome.result
               THEN /\ probe'.result[1].success = outcome.result.success
                    /\ probe'.result[1].data = outcome.result.data
                    /\ probe'.result[1].error = outcome.result.error
               ELSE ~probe'.result[1].success /\ probe'.result[1].error # None]_vars

C11_Witness ==
    /\ probe.op = "safe_execute" /\ probe.phase = "returned"
    /\ probe.executions = 1
    /\ ~probe.result[1].success
    /\ probe.result[1].error = Some(<<"b","o","o","m">>)
    /\ probe.result[1].tool_name = Some(S_kubectl)
    /\ probe.result[1].execution_time = 1

\* the "key: message" pairs of a validation result, in its order
C12_Pairs(errors) ==
    [i \in 1..Len(errors) |-> errors[i].k \o <<":", " ">> \o errors[i].v]

\* C12: when validate_parameters returns errors, safe_execute returns a failure
\* in the step of the call, execute is not invoked then or later, and the
\* error text ends with all the "key: message" pairs joined by "; ".
C12_ValidationFailure ==
    /\ [][(SafeExecuteBegins /\ validate(get_parameters(probe.tool.cls), probe.kwargs) # <<>>)
            => /\ probe'.phase = "returned"
               /\ probe'.executions = 0
               /\ ~probe'.result[1].success
               /\ probe'.result[1].error # None
               /\ \A i \in 1..Len(validate(get_parameters(probe.tool.cls), probe.kwargs)) :
                     contains(probe'.result[1].error[1],
                              C12_Pairs(validate(get_parameters(probe.tool.cls), probe.kwargs))[i])
               /\ IsSuffix(join(<<";", " ">>,
                                C12_Pairs(validate(get_parameters(probe.tool.cls), probe.kwargs))),
                           probe'.result[1].error[1])]_vars
    /\ []((probe.op = "safe_execute"
             /\ validate(get_parameters(probe.tool.cls), probe.kwargs) # <<>>)
            => probe.executions = 0 /\ probe.phase # "executing")

C12_Witness ==
    /\ probe.op = "safe_execute" /\ probe.phase = "returned"
    /\ probe.executions = 0
    /\ Len(validate(get_parameters(probe.tool.cls), probe.kwargs)) = 2
    /\ Len(probe.kwargs) = 2
    /\ ~probe.result[1].success

\* the parameter is declared with a list of allowed values
C13_Constrained(p) == p.enum_values # None /\ p.enum_values[1] # <<>>

\* the required parameters of the declared list that the mapping lacks
C13_Missing(declared, kwargs) ==
    { declared[i].name : i \in { j \in 1..Len(declared) :
          declared[j].required /\ \A n \in 1..Len(kwargs) : kwargs[n].k # declared[j].name } }

\* the supplied parameters whose declared allowed values lack the value
C13_NotAllowed(declared, kwargs) ==
    { kwargs[n].k : n \in { m \in 1..Len(kwargs) :
          \E j \in 1..Len(declared) :
             /\ declared[j].name = kwargs[m].k
             /\ C13_Constrained(declared[j])
             /\ \A e \in 1..Len(declared[j].enum_values[1]) :
                   declared[j].enum_values[1][e] # kwargs[m].v } }

\* C13: validate_parameters reports an error for exactly the required
\* parameters that are absent and the supplied parameters whose value is not
\* among the declared allowed values; undeclared keys are never reported, and
\* the result is empty exactly when there is no such parameter.
C13_Validation ==
    [][ValidateParameters =>
         /\ dict_keys(probe'.errors[1])
               = C13_Missing(probe.declared, probe.kwargs)
                 \cup C13_NotAllowed(probe.declared, probe.kwargs)
         /\ \A n \in 1..Len(probe.kwargs) :
               (\A j \in 1..Len(probe.declared) : probe.declared[j].name # probe.kwargs[n].k)
                  => probe.kwargs[n].k \notin dict_keys(probe'.errors[1])
         /\ (probe'.errors[1] = <<>>)
               <=> (/\ C13_Missing(probe.declared, probe.kwargs) = {}
                    /\ C13_NotAllowed(probe.declared, probe.kwargs) = {})]_vars

C13_Witness ==
    /\ probe.op = "validate_parameters" /\ probe.phase = "returned"
    /\ Len(probe.errors[1]) = 2
    /\ C13_Missing(probe.declared, probe.kwargs) # {}
    /\ C13_NotAllowed(probe.declared, probe.kwargs) # {}
    /\ \E n \in 1..Len(probe.kwargs) :
          \A j \in 1..Len(probe.declared) : probe.declared[j].name # probe.kwargs[n].k

(* --------------- the ToolRegistry on its own (registry.py) ------------- *)
\* del d[key]
dict_del(d, key) == SelectSeq(d, LAMBDA e : e.k # key)

\* ToolRegistry.register (19-27): the new _tools and _categories
register(tools, categories, tool) ==
    << dict_set(tools, tool.name, tool),
       [categories EXCEPT ![tool.category] = @ \cup {tool.name}] >>

\* ToolRegistry.unregister (29-39): the new _tools, _categories and the return value
unregister(tools, categories, tool_name) ==
    IF ~dict_has(tools, tool_name)
    THEN << tools, categories, FALSE >>
    ELSE << dict_del(tools, tool_name),
            [categories EXCEPT ![dict_get(tools, tool_name).category] = @ \ {tool_name}],
            TRUE >>

\* an assignment of the flag to every registered tool
set_enabled_all(tools, tool_name, flag) ==
    IF get_tool(tools, tool_name) = None THEN tools
    ELSE [i \in 1..Len(tools) |->
            [k |-> tools[i].k, v |-> [tools[i].v EXCEPT !.enabled = flag]]]

\* tool.enabled = flag on the tool get_tool finds (enable_tool 66-68,
\* disable_tool 75-77): the new _tools
set_enabled(tools, tool_name, flag) ==
    IF get_tool(tools, tool_name) = None THEN tools
    ELSE dict_set(tools, tool_name,
                  [dict_get(tools, tool_name) EXCEPT !.enabled = flag])

\* Tool.get_schema (base.py 90-110): name, the property names and the
\* required names
get_schema(tool) ==
    LET parameters == get_parameters(tool.cls)
        names(ps) == [i \in 1..Len(ps) |-> ps[i].name]
    IN  [name |-> tool.name,
         properties |-> names(parameters),
         required |-> names(SelectSeq(parameters, LAMBDA p : p.required))]

\* ToolRegistry.get_schemas (104-107): the lists it can return
get_schemas(tools, categories, category) ==
    { [i \in 1..Len(l) |-> get_schema(l[i])] :
        l \in list_tools(tools, categories, category, TRUE) }

\* a name no tool carries
S_missing_tool == <<"m","i","s","s","i","n","g","_","t","o","o","l">>

\* tool objects handed to register: two of them carry the name kubectl in
\* different categories, and a tool may have been disabled before
RegistryTools ==
    { [t EXCEPT !.enabled = e] :
        t \in { Tool(S_kubectl, "kubernetes", "KubectlTool"),
                Tool(S_kubectl, "istio", "ProxyTool"),
                Tool(S_logs, "kubernetes", "LogsTool") },
        e \in BOOLEAN }

\* the names callers pass
RegistryNames == { S_kubectl, S_logs, S_missing_tool }

\* the categories callers pass
RegistryCategories == { None, Some("kubernetes"), Some("istio"), Some("security") }

\* the keyword arguments callers pass to execute_tool
RegistryKwargs == { <<>>, << [k |-> S_command, v |-> S_get_pods] >> }

RegInit ==
    /\ NoController
    /\ EmptyRegistry
    /\ probe = NoProbe

Register(tool) ==
    /\ reg_tools' = register(reg_tools, reg_categories, tool)[1]
    /\ reg_categories' = register(reg_tools, reg_categories, tool)[2]
    /\ probe' = [op |-> "register", tool |-> tool]
    /\ UNCHANGED controller

Unregister(tool_name) ==
    /\ reg_tools' = unregister(reg_tools, reg_categories, tool_name)[1]
    /\ reg_categories' = unregister(reg_tools, reg_categories, tool_name)[2]
    /\ probe' = [op |-> "unregister", tool_name |-> tool_name,
                 ret |-> unregister(reg_tools, reg_categories, tool_name)[3]]
    /\ UNCHANGED controller

\* ToolRegistry.enable_tool (64-71); tool is what get_tool returned, as it was
\* before the assignment
EnableTool(tool_name) ==
    /\ reg_tools' = set_enabled(reg_tools, tool_name, TRUE)
    /\ probe' = [op |-> "enable_tool", tool_name |-> tool_name,
                 tool |-> get_tool(reg_tools, tool_name),
                 ret |-> get_tool(reg_tools, tool_name) # None]
    /\ UNCHANGED <<controller, reg_categories>>

\* ToolRegistry.disable_tool (73-80)
DisableTool(tool_name) ==
    /\ reg_tools' = set_enabled(reg_tools, tool_name, FALSE)
    /\ probe' = [op |-> "disable_tool", tool_name |-> tool_name,
                 tool |-> get_tool(reg_tools, tool_name),
                 ret |-> get_tool(reg_tools, tool_name) # None]
    /\ UNCHANGED <<controller, reg_categories>>

\* a whole call of ToolRegistry.execute_tool (82-102) by a caller of the
\* registry; executions counts the entries into a tool's execute and
\* validations the calls of a tool's validate_parameters
RegistryExecuteTool(tool_name, kwargs, outcome) ==
    /\ IF reaches_execute(reg_tools, tool_name, kwargs)
       THEN outcome \in Outcomes
       ELSE outcome = NoOutcome
    /\ probe' = [op |-> "execute_tool", tool_name |-> tool_name, kwargs |-> kwargs,
                 ret |-> execute_tool(reg_tools, tool_name, kwargs, outcome),
                 safe_executions |->
                    IF get_tool(reg_tools, tool_name) # None
                       /\ get_tool(reg_tools, tool_name)[1].enabled
                    THEN << get_tool(reg_tools, tool_name)[1] >> ELSE <<>>,
                 executions |->
                    IF outcome # NoOutcome
                    THEN << get_tool(reg_tools, tool_name)[1] >> ELSE <<>>]
    /\ UNCHANGED <<controller, registry>>

ListTools(category, enabled_only) ==
    /\ \E l \in list_tools(reg_tools, reg_categories, category, enabled_only) :
          probe' = [op |-> "list_tools", category |-> category,
                    enabled_only |-> enabled_only, ret |-> l]
    /\ UNCHANGED <<controller, registry>>

GetSchemas(category) ==
    /\ \E l \in get_schemas(reg_tools, reg_categories, category) :
          probe' = [op |-> "get_schemas", category |-> category, ret |-> l]
    /\ UNCHANGED <<controller, registry>>

RegNext ==
    \/ \E tool \in RegistryTools : Register(tool)
    \/ \E tool_name \in RegistryNames : Unregister(tool_name)
    \/ \E tool_name \in RegistryNames : EnableTool(tool_name)
    \/ \E tool_name \in RegistryNames : DisableTool(tool_name)
    \/ \E tool_name \in RegistryNames, kwargs \in RegistryKwargs,
          outcome \in Outcomes \cup {NoOutcome} :
          RegistryExecuteTool(tool_name, kwargs, outcome)
    \/ \E category \in RegistryCategories, enabled_only \in BOOLEAN :
          ListTools(category, enabled_only)
    \/ \E category \in RegistryCategories : GetSchemas(category)

RegSpec == RegInit /\ [][RegNext]_vars

\* C14: execute_tool with a name that is not a key of _tools returns the failure
\* ToolResult with error "Tool '<name>' not found" and tool_name = name; no
\* tool's safe_execute (hence no validate_parameters) and no tool's execute is
\* entered, and _tools and _categories are left as they were.
C14_NotFound ==
    [][ (probe'.op = "execute_tool" /\ ~dict_has(reg_tools, probe'.tool_name))
        => /\ probe'.ret =
                [success |-> FALSE, data |-> NoData,
                 error |-> Some(<<"T","o","o","l"," ","'">> \o probe'.tool_name
                                \o <<"'"," ","n","o","t"," ","f","o","u","n","d">>),
                 tool_name |-> Some(probe'.tool_name)]
           /\ probe'.safe_executions = <<>>
           /\ probe'.executions = <<>>
           /\ reg_tools' = reg_tools
           /\ reg_categories' = reg_categories ]_vars

\* execute_tool("missing_tool") has returned on a registry that holds tools
C14_Witness ==
    /\ probe.op = "execute_tool"
    /\ probe.tool_name = S_missing_tool
    /\ Len(reg_tools) = 2
    /\ ~probe.ret.success
    /\ probe.executions = <<>>

(* ------- the controller on a registry whose tools are switched --------- *)
\* enable_tool(tool_name) when flag is true, disable_tool(tool_name) when it is
\* false, called on the registry the controller holds (registry.py 64-80); the
\* caller drops the return value
SwitchTool(tool_name, flag) ==
    /\ reg_tools' = set_enabled(reg_tools, tool_name, flag)
    /\ UNCHANGED <<controller, reg_categories, probe>>

\* the registry of a controller is an object of the front end, which can switch
\* a tool at any moment, also while a turn is suspended at an await
CtlRegNext ==
    \/ Next
    \/ \E flag \in BOOLEAN : SwitchTool(S_kubectl, flag)

CtlRegSpec == Init /\ [][CtlRegNext]_vars

\* C15: a tool call of a turn whose tool is registered with enabled = False gets
\* the failure ToolResult with error "Tool '<name>' is disabled" and the tool's
\* execute is not entered; execute is entered only for a tool that is enabled
\* when execute_tool is called, whenever the flag was last changed.
C15_DisabledNeverExecuted ==
    [][ (pc = "tools" /\ Len(results') = Len(results) + 1)
        => LET call == tool_calls[Len(results) + 1]
               tool == get_tool(reg_tools, call.tool)
           IN  /\ (tool # None /\ ~tool[1].enabled)
                    => /\ results'[Len(results')] =
                            [success |-> FALSE, data |-> NoData,
                             error |-> Some(<<"T","o","o","l"," ","'">> \o call.tool
                                            \o <<"'"," ","i","s"," ","d","i","s","a","b","l","e","d">>),
                             tool_name |-> Some(call.tool)]
                       /\ executed' = executed
               /\ executed' # executed
                    => /\ tool # None
                       /\ tool[1].enabled
                       /\ executed' = Append(executed, call) ]_vars

\* the second tool round of a turn has refused kubectl as disabled, after the
\* first round of the same turn executed it
C15_Witness ==
    /\ pc = "loop"
    /\ iteration = 2
    /\ Len(results) = 2
    /\ tool_calls[2].tool = S_kubectl
    /\ results[2].error = Some(S_tool_q \o S_kubectl \o S_is_disabled)
    /\ executed = <<>>
    /\ Len(conversation_history) >= 3
    /\ contains(conversation_history[Len(conversation_history) - 2].content,
                <<CheckMark, " ">> \o S_kubectl \o S_executed_successfully)

\* C16: after any sequence of register and unregister calls a name is in the
\* set _categories[c] if and only if _tools holds a tool of that name whose
\* category is c; unregister(name) returns True exactly when the name was a key
\* of _tools, and afterwards the name is in neither _tools nor any category set.
C16_IndexAgrees ==
    /\ \A c \in ToolCategory, name \in RegistryNames :
          name \in reg_categories[c]
            <=> (dict_has(reg_tools, name) /\ dict_get(reg_tools, name).category = c)
    /\ probe.op = "unregister"
          => /\ ~dict_has(reg_tools, probe.tool_name)
             /\ \A c \in ToolCategory : probe.tool_name \notin reg_categories[c]

\* C16 as the code has it: every registered tool is stored under its own name
\* and listed under its own category, a listed name that is not registered in
\* that category is one of a tool that was overwritten by a tool of another
\* category, and unregister returns whether the name was registered, removes
\* it from _tools and from the category set of the tool it removed, and
\* leaves every other key and every other category set as they were.
C16_AsCoded ==
    [][ /\ \A i \in 1..Len(reg_tools') :
              /\ reg_tools'[i].k = reg_tools'[i].v.name
              /\ reg_tools'[i].k \in reg_categories'[reg_tools'[i].v.category]
        /\ \A c \in ToolCategory, name \in RegistryNames :
              (name \in reg_categories'[c] /\ name \notin reg_categories[c])
                => (probe'.op = "register" /\ probe'.tool.name = name
                    /\ probe'.tool.category = c)
        /\ probe'.op = "unregister"
              => /\ probe'.ret = dict_has(reg_tools, probe'.tool_name)
                 /\ ~dict_has(reg_tools', probe'.tool_name)
                 /\ dict_keys(reg_tools') = dict_keys(reg_tools) \ {probe'.tool_name}
                 /\ \A c \in ToolCategory :
                       reg_categories'[c] =
                          IF probe'.ret /\ dict_get(reg_tools, probe'.tool_name).category = c
                          THEN reg_categories[c] \ {probe'.tool_name}
                          ELSE reg_categories[c] ]_vars

\* kubectl was registered in category kubernetes, overwritten by a tool of
\* category istio and then unregistered: it is still listed under kubernetes
C16_Witness ==
    /\ probe.op = "unregister"
    /\ probe.tool_name = S_kubectl
    /\ probe.ret
    /\ ~dict_has(reg_tools, S_kubectl)
    /\ S_kubectl \in reg_categories["kubernetes"]
    /\ S_kubectl \notin reg_categories["istio"]

\* C17: enable_tool(name) and disable_tool(name) return True exactly when name
\* is registered; the tool of that name then has enabled = True resp. False,
\* every other tool, the keys of _tools and _categories are as before; for an
\* unregistered name nothing changes; a second call of the same method changes
\* nothing more; and after enable_tool returned True execute_tool on the name
\* hands the call to the tool's safe_execute, also when the tool was disabled.
C17_EnableDisable ==
    [][ probe'.op \in {"enable_tool", "disable_tool"}
        => LET name == probe'.tool_name
               flag == (probe'.op = "enable_tool")
           IN  /\ probe'.ret = (name \in dict_keys(reg_tools))
               /\ reg_categories' = reg_categories
               /\ Len(reg_tools') = Len(reg_tools)
               /\ \A i \in 1..Len(reg_tools) :
                     /\ reg_tools'[i].k = reg_tools[i].k
                     /\ reg_tools'[i].v.name = reg_tools[i].v.name
                     /\ reg_tools'[i].v.category = reg_tools[i].v.category
                     /\ reg_tools'[i].v.cls = reg_tools[i].v.cls
                     /\ reg_tools'[i].v.enabled =
                           IF reg_tools[i].k = name THEN flag ELSE reg_tools[i].v.enabled
               /\ ~probe'.ret => reg_tools' = reg_tools
               /\ set_enabled(reg_tools', name, flag) = reg_tools'
               /\ (flag /\ probe'.ret)
                     => \A kwargs \in RegistryKwargs, outcome \in Outcomes :
                           /\ execute_tool(reg_tools', name, kwargs, outcome)
                                = safe_execute(dict_get(reg_tools', name), kwargs, outcome)
                           /\ reaches_execute(reg_tools', name, kwargs)
                                = calls_execute(dict_get(reg_tools', name), kwargs) ]_vars

\* enable_tool("kubectl") has returned True on a registry where kubectl was
\* disabled and logs is disabled still
C17_Witness ==
    /\ probe.op = "enable_tool"
    /\ probe.tool_name = S_kubectl
    /\ probe.ret
    /\ ~probe.tool[1].enabled
    /\ dict_get(reg_tools, S_kubectl).enabled
    /\ dict_has(reg_tools, S_logs)
    /\ ~dict_get(reg_tools, S_logs).enabled

\* the registered tools whose category is c and whose enabled flag is true
EnabledOfCategory(c) ==
    { reg_tools[i].v : i \in { j \in 1..Len(reg_tools) :
                                  /\ reg_tools[j].v.category = c
                                  /\ reg_tools[j].v.enabled } }

\* the registered, enabled tools whose name is in the set _categories[c]
EnabledListedUnder(c) ==
    { reg_tools[i].v : i \in { j \in 1..Len(reg_tools) :
                                  /\ reg_tools[j].k \in reg_categories[c]
                                  /\ reg_tools[j].v.enabled } }

\* the list l holds each member of the set s once and nothing else
ListsExactly(l, s) ==
    /\ { l[i] : i \in 1..Len(l) } = s
    /\ Len(l) = Cardinality(s)

\* C18: list_tools(category=c, enabled_only=True) returns exactly the registered
\* tools whose category is c and whose enabled flag is true, and
\* get_schemas(c) returns the schema of each such tool once and no other.
C18_Listing ==
    [][ /\ (probe'.op = "list_tools" /\ probe'.category # None /\ probe'.enabled_only)
            => ListsExactly(probe'.ret, EnabledOfCategory(probe'.category[1]))
        /\ (probe'.op = "get_schemas" /\ probe'.category # None)
            => ListsExactly(probe'.ret,
                            { get_schema(t) : t \in EnabledOfCategory(probe'.category[1]) })
      ]_vars

\* C18 as the code has it: the list holds, once each, the registered enabled
\* tools whose name is in _categories[c]; these include every registered
\* enabled tool of category c, and they are exactly those when no name is
\* listed under c whose registered tool is of another category.
C18_AsCoded ==
    [][ /\ (probe'.op = "list_tools" /\ probe'.category # None /\ probe'.enabled_only)
            => LET c == probe'.category[1]
               IN  /\ ListsExactly(probe'.ret, EnabledListedUnder(c))
                   /\ EnabledOfCategory(c) \subseteq EnabledListedUnder(c)
                   /\ (\A t \in EnabledListedUnder(c) : t.category = c)
                         => ListsExactly(probe'.ret, EnabledOfCategory(c))
        /\ (probe'.op = "get_schemas" /\ probe'.category # None)
            => LET c == probe'.category[1]
               IN  /\ ListsExactly(probe'.ret,
                                   { get_schema(t) : t \in EnabledListedUnder(c) })
                   /\ (\A t \in EnabledListedUnder(c) : t.category = c)
                         => ListsExactly(probe'.ret,
                                         { get_schema(t) : t \in EnabledOfCategory(c) })
      ]_vars

\* list_tools(category=KUBERNETES) has returned a tool whose category is istio
C18_Witness ==
    /\ probe.op = "list_tools"
    /\ probe.category = Some("kubernetes")
    /\ probe.enabled_only
    /\ \E i \in 1..Len(probe.ret) : probe.ret[i].category = "istio"
    /\ \E i \in 1..Len(probe.ret) : probe.ret[i].category = "kubernetes"

(* ------------- the extractor called on its own (controller.py) --------- *)
\* the most lines of a response
MaxLines == 2

\* lines an LLM response is made of
ExtractLines ==
    { <<"k","u","b","e","c","t","l"," ","g","e","t"," ","p","o","d","s">>,
      <<"k","u","b","e","c","t","l"," "," ","g","e","t"," ","p","o","d","s">>,
      <<"k","u","b","e","c","t","l">>,
      <<"K","u","b","e","c","t","l"," ","g","e","t"," ","p","o","d","s">>,
      <<"k","u","b","e","c","t","l","g","e","t"," ","p","o","d","s">>,
      <<" "," ","k","u","b","e","c","t","l"," ","g","e","t"," ","p","o","d","s"," "," ">>,
      <<"k","u","b","e","c","t","l","\t","g","e","t"," ","p","o","d","s">>,
      <<"i","s","t","i","o"," ","p","r","o","x","y","_","s","t","a","t","u","s">>,
      <<"i","s","t","i","o"," ","a"," ","b"," ","c">>,
      <<"i","s","t","i","o"," ","a","\t","b">>,
      <<"i","s","t","i","o">>,
      <<"i","s","t","i","o"," "," ","a"," "," ","b">>,
      <<"L","e","t"," ","m","e"," ","c","h","e","c","k"," ","p","o","d","s"," ","u","s","i","n","g"," ","k","u","b","e","c","t","l">>,
      <<"h","e","l","l","o">>,
      <<"L","e","t"," ","m","e"," ","c","h","e","c","k"," ","t","h","e"," ","s","e","r","v","i","c","e","s"," ","u","s","i","n","g"," ","k","u","b","e","c","t","l">>,
      <<"L","E","T"," ","M","E"," ","C","H","E","C","K"," ","p","o","d","s"," ","a","n","d"," ","s","e","r","v","i","c","e","s"," ","U","S","I","N","G"," ","K","U","B","E","C","T","L">>,
      <<"L","e","t"," ","m","e"," ","c","h","e","c","k"," ","n","o","d","e","s"," ","u","s","i","n","g"," ","k","u","b","e","c","t","l">>,
      <<"L","e","t"," ","m","e"," ","c","h","e","c","k"," ","i","t"," ","u","s","i","n","g"," ","c","u","r","l">>,
      <<"L","e","t"," ","m","e"," ","i","n","v","e","s","t","i","g","a","t","e"," ","t","h","i","s"," ","i","s","s","u","e">>,
      <<"k","u","b","e","c","t","l"," ","l","e","t"," ","m","e"," ","c","h","e","c","k"," ","s","e","r","v","i","c","e","s"," ","u","s","i","n","g"," ","k","u","b","e","c","t","l">>,
      <<"i","s","t","i","o"," ","l","e","t"," ","m","e"," ","c","h","e","c","k"," ","p","o","d","s"," ","u","s","i","n","g"," ","k","u","b","e","c","t","l">>,
      <<>> }

\* the lines that follow the first line of a response
ExtractMoreLines ==
    { <<"k","u","b","e","c","t","l"," ","g","e","t"," ","p","o","d","s">>,
      <<"i","s","t","i","o"," ","a"," ","b"," ","c">>,
      <<"L","e","t"," ","m","e"," ","c","h","e","c","k"," ","t","h","e"," ","s","e","r","v","i","c","e","s"," ","u","s","i","n","g"," ","k","u","b","e","c","t","l">>,
      <<"L","e","t"," ","m","e"," ","i","n","v","e","s","t","i","g","a","t","e"," ","t","h","i","s"," ","i","s","s","u","e">>,
      <<"h","e","l","l","o">> }

\* the responses handed to _extract_tool_calls: a line followed by up to
\* MaxLines - 1 more lines, joined by newlines
ExtractResponses ==
    { join(<<"\n">>, <<first>> \o more) :
        first \in ExtractLines,
        more \in UNION { [1..n -> ExtractMoreLines] : n \in 0..(MaxLines - 1) } }

\* a call self._extract_tool_calls(llm_response) about to be made
ExtractCall(llm_response) ==
    [op |-> "extract_tool_calls", llm_response |-> llm_response, phase |-> "called",
     raised |-> FALSE, ret |-> <<>>, appended |-> <<>>]

\* a controller after construction, or with the context a process_query call
\* has created, and a response to extract from
ExtractInit ==
    /\ max_iterations = 0
    /\ conversation_memory = 0
    /\ conversation_history = <<>>
    /\ context \in { None } \cup { Some(ConversationContext(q.text, q.namespace)) : q \in Queries }
    /\ pc = "idle"
    /\ user_input = <<>>
    /\ iteration = 0
    /\ response = None
    /\ tool_calls = <<>>
    /\ results = <<>>
    /\ messages = <<>>
    /\ returned = NoReturn
    /\ llm_calls = 0
    /\ invoked = <<>>
    /\ executed = <<>>
    /\ turns = 0
    /\ reg_tools = default_tools
    /\ reg_categories = default_categories
    /\ probe \in { ExtractCall(r) : r \in ExtractResponses }
    /\ system_prompt = build_system_prompt(reg_tools, reg_categories)

\* _extract_tool_calls runs and returns or raises (156-210); appended[i] is what
\* the i-th pass of its for loop appends to tool_calls
ExtractToolCalls ==
    /\ probe.op = "extract_tool_calls"
    /\ probe.phase = "called"
    /\ LET ext == extract_tool_calls(probe.llm_response, context)
           lines == split(probe.llm_response, "\n")
       IN  probe' = [probe EXCEPT
                       !.phase = "returned",
                       !.raised = ext.raised,
                       !.ret = ext.tool_calls,
                       !.appended =
                          IF ext.raised THEN <<>>
                          ELSE [i \in 1..Len(lines) |->
                                  line_tool_calls(strip(lines[i]),
                                                  IF context = None THEN <<>>
                                                  ELSE context[1].namespace)]]
    /\ UNCHANGED <<controller, registry>>

ExtractNext == ExtractToolCalls

ExtractSpec == ExtractInit /\ [][ExtractNext]_vars

\* the stripped lines of the response the extractor was called on
ExtractedLines ==
    [i \in 1..Len(split(probe.llm_response, "\n")) |->
        strip(split(probe.llm_response, "\n")[i])]

\* the extractor has returned a list for a controller that has a context
Extracted ==
    /\ probe.op = "extract_tool_calls"
    /\ probe.phase = "returned"
    /\ ~probe.raised

\* rule 2 on the stripped line i, with the given command for a matching line:
\* a line that begins with "kubectl " yields the one kubectl ToolCall with that
\* command and the context's namespace; any other line yields no kubectl
\* ToolCall, unless it holds the phrase "let me check" of rule 4
C19_Rule2(i, command) ==
    IF startswith(ExtractedLines[i], <<"k","u","b","e","c","t","l"," ">>)
    THEN probe.appended[i] =
            << [tool |-> <<"k","u","b","e","c","t","l">>,
                parameters |-> << [k |-> <<"c","o","m","m","a","n","d">>, v |-> command],
                                  [k |-> <<"n","a","m","e","s","p","a","c","e">>,
                                   v |-> context[1].namespace] >>] >>
    ELSE contains(lower(ExtractedLines[i]), <<"l","e","t"," ","m","e"," ","c","h","e","c","k">>)
         \/ \A j \in 1..Len(probe.appended[i]) :
               probe.appended[i][j].tool # <<"k","u","b","e","c","t","l">>

\* C19 as stated: a trimmed line yields a kubectl ToolCall by rule 2 exactly
\* when it begins with the case-sensitive literal "kubectl "; its command is the
\* remainder of the line after the prefix and its namespace the context's.
C19_KubectlRemainder ==
    Extracted
      => \A i \in 1..Len(ExtractedLines) :
            C19_Rule2(i, slice_from(ExtractedLines[i], 8))

\* C19 amended: as stated, with the command being the remainder of the line
\* after the prefix without the whitespace at its start.
C19_KubectlStripped ==
    Extracted
      => \A i \in 1..Len(ExtractedLines) :
            C19_Rule2(i, strip(slice_from(ExtractedLines[i], 8)))

\* the line "kubectl  get pods" has yielded the command "get pods", and the
\* line "hello" after it has yielded nothing
C19_Witness ==
    /\ Extracted
    /\ context # None
    /\ context[1].namespace = <<"p","r","o","d">>
    /\ ExtractedLines = << <<"k","u","b","e","c","t","l"," "," ","g","e","t"," ","p","o","d","s">>,
                           <<"h","e","l","l","o">> >>
    /\ probe.ret = << kubectl_call(S_get_pods, <<"p","r","o","d">>) >>

\* the text of s, stripped, up to its first whitespace character
FirstToken(s) ==
    LET t == strip(s)
        ws == { i \in 1..Len(t) : t[i] \in Whitespace }
    IN  IF ws = {} THEN t
        ELSE SubSeq(t, 1, (CHOOSE i \in ws : \A j \in ws : i <= j) - 1)

\* the text that follows that token, without the whitespace around it
AfterToken(s) == strip(slice_from(strip(s), Len(FirstToken(s))))

\* the one ToolCall the stripped line i has yielded is for the tool istio and
\* has these parameters in this order
IstioCall(i, parameters) ==
    probe.appended[i] = << [tool |-> <<"i","s","t","i","o">>, parameters |-> parameters] >>

\* C20 as stated: a trimmed line beginning with "istio " yields one ToolCall for
\* the tool istio whose action is the first whitespace-delimited token after the
\* prefix; a service parameter is present exactly when further text follows
\* that token, and it holds that text (compared without surrounding blanks).
C20_IstioTokens ==
    Extracted
      => \A i \in 1..Len(ExtractedLines) :
            startswith(ExtractedLines[i], <<"i","s","t","i","o"," ">>)
              => LET rest == slice_from(ExtractedLines[i], 6)
                     action == [k |-> <<"a","c","t","i","o","n">>, v |-> FirstToken(rest)]
                 IN  IF AfterToken(rest) = <<>>
                     THEN IstioCall(i, << action >>)
                     ELSE \E service \in { probe.appended[i][j].parameters[2].v :
                                             j \in { n \in 1..Len(probe.appended[i]) :
                                                       Len(probe.appended[i][n].parameters) = 2 } } :
                             /\ strip(service) = AfterToken(rest)
                             /\ IstioCall(i, << action,
                                                [k |-> <<"s","e","r","v","i","c","e">>,
                                                 v |-> service] >>)

\* C20 as the code has it: the text after the prefix is stripped and cut at its
\* first blank " ": action is what stands before that blank, or the whole text
\* when it has no blank; service is present exactly when there is a blank and
\* is everything behind it.  Tabs do not delimit.
C20_AsCoded ==
    Extracted
      => \A i \in 1..Len(ExtractedLines) :
            startswith(ExtractedLines[i], <<"i","s","t","i","o"," ">>)
              => LET rest == strip(slice_from(ExtractedLines[i], 6))
                     blanks == { n \in 1..Len(rest) : rest[n] = " " }
                     first == CHOOSE n \in blanks : \A m \in blanks : n <= m
                 IN  IF blanks = {}
                     THEN IstioCall(i, << [k |-> <<"a","c","t","i","o","n">>, v |-> rest] >>)
                     ELSE IstioCall(i, << [k |-> <<"a","c","t","i","o","n">>,
                                           v |-> SubSeq(rest, 1, first - 1)],
                                          [k |-> <<"s","e","r","v","i","c","e">>,
                                           v |-> SubSeq(rest, first + 1, Len(rest))] >>)

\* the line "istio a<TAB>b" has yielded the action "a<TAB>b" and no service
C20_Witness ==
    /\ Extracted
    /\ ExtractedLines = << <<"i","s","t","i","o"," ","a","\t","b">> >>
    /\ probe.ret = << [tool |-> S_istio,
                       parameters |-> << [k |-> S_action, v |-> <<"a","\t","b">>] >>] >>

\* the stripped line i in lower case holds the text
LineHolds(i, text) == contains(lower(ExtractedLines[i]), text)

\* the one kubectl ToolCall with this command in the context's namespace
KubectlToolCall(command) ==
    [tool |-> <<"k","u","b","e","c","t","l">>,
     parameters |-> << [k |-> <<"c","o","m","m","a","n","d">>, v |-> command],
                       [k |-> <<"n","a","m","e","s","p","a","c","e">>,
                        v |-> context[1].namespace] >>]

\* the stripped line i begins with neither "kubectl " nor "istio "
NoPrefix(i) ==
    /\ ~startswith(ExtractedLines[i], <<"k","u","b","e","c","t","l"," ">>)
    /\ ~startswith(ExtractedLines[i], <<"i","s","t","i","o"," ">>)

\* C21: a line not matched by rules 2 and 3 that holds, in any case, "let me
\* check", "using", "kubectl" and "pods" or "services" yields exactly one kubectl
\* ToolCall in the context's namespace: "get pods" when it holds "pods", "get
\* services" when it holds "services" and not "pods"; the response "Let me check
\* the services using kubectl" yields the one ToolCall "get services".
C21_Rule4 ==
    Extracted
      => /\ \A i \in 1..Len(ExtractedLines) :
               ( /\ NoPrefix(i)
                 /\ LineHolds(i, <<"l","e","t"," ","m","e"," ","c","h","e","c","k">>)
                 /\ LineHolds(i, <<"u","s","i","n","g">>)
                 /\ LineHolds(i, <<"k","u","b","e","c","t","l">>)
                 /\ (LineHolds(i, <<"p","o","d","s">>)
                       \/ LineHolds(i, <<"s","e","r","v","i","c","e","s">>)) )
               => probe.appended[i] =
                     << KubectlToolCall(IF LineHolds(i, <<"p","o","d","s">>)
                                        THEN <<"g","e","t"," ","p","o","d","s">>
                                        ELSE <<"g","e","t"," ","s","e","r","v","i","c","e","s">>) >>
         /\ probe.llm_response = <<"L","e","t"," ","m","e"," ","c","h","e","c","k"," ","t","h","e"," ","s","e","r","v","i","c","e","s"," ","u","s","i","n","g"," ","k","u","b","e","c","t","l">>
               => probe.ret = << KubectlToolCall(<<"g","e","t"," ","s","e","r","v","i","c","e","s">>) >>

\* a line in capitals that holds both "pods" and "services" has yielded the
\* one ToolCall "get pods"
C21_Witness ==
    /\ Extracted
    /\ Len(ExtractedLines) = 1
    /\ LineHolds(1, S_pods)
    /\ LineHolds(1, S_services)
    /\ lower(ExtractedLines[1]) # ExtractedLines[1]
    /\ startswith(ExtractedLines[1], <<"L","E","T">>)
    /\ probe.ret = << kubectl_call(S_get_pods, <<"d","e","f","a","u","l","t">>) >>

\* the ToolCalls the passes of the for loop have appended, in their order
RECURSIVE Appended(_)
Appended(per_line) ==
    IF per_line = <<>> THEN <<>> ELSE per_line[1] \o Appended(Tail(per_line))

\* the response in lower case holds one of the investigation trigger phrases
HoldsTrigger ==
    \E phrase \in { <<"l","e","t"," ","m","e"," ","i","n","v","e","s","t","i","g","a","t","e">>,
                    <<"l","e","t"," ","m","e"," ","c","h","e","c","k">>,
                    <<"i","'","l","l"," ","e","x","a","m","i","n","e">>,
                    <<"l","e","t"," ","m","e"," ","l","o","o","k"," ","a","t">>,
                    <<"i"," ","n","e","e","d"," ","t","o"," ","s","e","e">>,
                    <<"f","i","r","s","t",","," ","l","e","t"," ","m","e">> } :
        contains(lower(probe.llm_response), phrase)

\* C22: the fallback ToolCall, kubectl "get pods" in the context's namespace, is
\* returned exactly when the lines of the whole response have yielded no
\* ToolCall and the response holds, in any case, a trigger phrase; it is then the
\* only ToolCall returned, and otherwise the list is what the lines yielded.
C22_Fallback ==
    Extracted
      => IF Appended(probe.appended) = <<>> /\ HoldsTrigger
         THEN probe.ret = << KubectlToolCall(<<"g","e","t"," ","p","o","d","s">>) >>
         ELSE probe.ret = Appended(probe.appended)

\* a response of two lines without a tool line that holds "Let me investigate"
\* has yielded the one fallback ToolCall
C22_Witness ==
    /\ Extracted
    /\ ExtractedLines = << <<"h","e","l","l","o">>,
                           <<"L","e","t"," ","m","e"," ","i","n","v","e","s","t","i","g","a","t","e"," ","t","h","i","s"," ","i","s","s","u","e">> >>
    /\ probe.appended = << <<>>, <<>> >>
    /\ probe.ret = << kubectl_call(S_get_pods, context[1].namespace) >>

\* C23: each line of a response yields at most one ToolCall, that of the first
\* of rules 2, 3, 4 that matches it (a line that begins with "kubectl " yields a
\* kubectl ToolCall with the rest of the line as command, a line that begins
\* with "istio " an istio ToolCall, whatever else the line holds), and the
\* ToolCalls of the lines are returned in the order of the lines.
C23_LineOrder ==
    Extracted
      => /\ \A i \in 1..Len(ExtractedLines) :
               /\ Len(probe.appended[i]) <= 1
               /\ startswith(ExtractedLines[i], <<"k","u","b","e","c","t","l"," ">>)
                     => probe.appended[i] =
                           << KubectlToolCall(strip(slice_from(ExtractedLines[i], 8))) >>
               /\ startswith(ExtractedLines[i], <<"i","s","t","i","o"," ">>)
                     => /\ Len(probe.appended[i]) = 1
                        /\ probe.appended[i][1].tool = <<"i","s","t","i","o">>
         /\ Appended(probe.appended) # <<>> => probe.ret = Appended(probe.appended)
         /\ Len(probe.appended) = Len(ExtractedLines)

\* an istio line that also holds the words of rule 4, followed by a kubectl
\* line: one ToolCall each, the istio one first
C23_Witness ==
    /\ Extracted
    /\ ExtractedLines = << <<"i","s","t","i","o"," ","l","e","t"," ","m","e"," ","c","h","e","c","k"," ","p","o","d","s"," ","u","s","i","n","g"," ","k","u","b","e","c","t","l">>,
                           <<"k","u","b","e","c","t","l"," ","g","e","t"," ","p","o","d","s">> >>
    /\ Len(probe.ret) = 2
    /\ probe.ret[1].tool = S_istio
    /\ probe.ret[2] = kubectl_call(S_get_pods, context[1].namespace)

(* -------- the extractor on controllers in different states -------------- *)
\* a context as process_query creates it, or one that tool results have
\* filled with findings
ExtractContexts ==
    { ConversationContext(q.text, q.namespace) : q \in Queries }
    \cup { [ConversationContext(q.text, q.namespace) EXCEPT
              !.symptoms = << L_pending >>,
              !.suspected_components = << L_scheduling >>,
              !.cluster_info = << [k |-> S_pod_health, v |-> <<"1","/","2">> \o S_running_suffix] >>] :
            q \in Queries }

\* controllers that differ in history, context and registry
ExtractAnyInit ==
    /\ max_iterations = 0
    /\ conversation_memory = 0
    /\ conversation_history \in { <<>>, << Message("user", <<"h","i">>) >> }
    /\ context \in { Some(c) : c \in ExtractContexts }
    /\ pc = "idle"
    /\ user_input = <<>>
    /\ iteration = 0
    /\ response = None
    /\ tool_calls = <<>>
    /\ results = <<>>
    /\ messages = <<>>
    /\ returned = NoReturn
    /\ llm_calls = 0
    /\ invoked = <<>>
    /\ executed = <<>>
    /\ turns = 0
    /\ \/ reg_tools = default_tools /\ reg_categories = default_categories
       \/ EmptyRegistry
    /\ probe \in { ExtractCall(r) : r \in ExtractResponses }
    /\ system_prompt = build_system_prompt(reg_tools, reg_categories)

ExtractAnySpec == ExtractAnyInit /\ [][ExtractNext]_vars

MaxRows == 2

\* rows of a pod listing
UpdateRows ==
    { <<"a"," ","R","u","n","n","i","n","g">>,
      <<"b"," ","P","e","n","d","i","n","g">>,
      <<"c"," ","C","r","a","s","h","L","o","o","p","B","a","c","k","O","f","f">>,
      <<"d"," ","R","U","N","N","I","N","G">>,
      <<"e"," ","E","r","r","I","m","a","g","e","P","u","l","l">>,
      <<>> }

\* the text data of results: a header alone, a header followed by up to
\* MaxRows rows, the empty text, and a single line that holds a finding
UpdateTexts ==
    { join(<<"\n">>, << <<"N">> >> \o rows) :
        rows \in UNION { [1..n -> UpdateRows] : n \in 0..MaxRows } }
    \cup { <<>>, <<"p","e","n","d","i","n","g">> }

\* the results handed to _update_context_from_result
UpdateResults ==
    { ToolResult(success, data, None, Some(S_kubectl)) :
        success \in BOOLEAN,
        data \in { NoData, DictData } \cup { StrData(text) : text \in UpdateTexts } }

\* a call self._update_context_from_result(tool_name, result) about to be made
UpdateCall(tool_name, result) ==
    [op |-> "update_context", tool_name |-> tool_name, result |-> result,
     phase |-> "called", before |-> None]

UpdateInit ==
    /\ max_iterations = 0
    /\ conversation_memory = 0
    /\ conversation_history = <<>>
    /\ context \in { None } \cup { Some(c) : c \in ExtractContexts }
    /\ pc = "idle"
    /\ user_input = <<>>
    /\ iteration = 0
    /\ response = None
    /\ tool_calls = <<>>
    /\ results = <<>>
    /\ messages = <<>>
    /\ returned = NoReturn
    /\ llm_calls = 0
    /\ invoked = <<>>
    /\ executed = <<>>
    /\ turns = 0
    /\ reg_tools = default_tools
    /\ reg_categories = default_categories
    /\ probe \in { UpdateCall(tool_name, result) :
                      tool_name \in { S_kubectl, S_logs, S_istio }, result \in UpdateResults }
    /\ system_prompt = build_system_prompt(reg_tools, reg_categories)

\* _update_context_from_result runs and returns (247-274); before is the
\* context as it was when the call was made
UpdateContext ==
    /\ probe.op = "update_context"
    /\ probe.phase = "called"
    /\ context' = update_context_from_result(context, probe.tool_name, probe.result)
    /\ probe' = [probe EXCEPT !.phase = "returned", !.before = context]
    /\ UNCHANGED <<config, registry, conversation_history, frame, returned, ghost>>

UpdateNext == UpdateContext

UpdateSpec == UpdateInit /\ [][UpdateNext]_vars

\* _update_context_from_result has returned on a controller with a context
Updated ==
    /\ probe.op = "update_context"
    /\ probe.phase = "returned"
    /\ context # None

\* C27: a tool result changes the context only when it is successful, its
\* tool name is kubectl and its data is a str; any other result leaves every
\* field of the context as it was, and no result changes user_query or
\* namespace or puts a context where there was none.
C27_ContextFrame ==
    [][ (probe.phase = "called" /\ probe'.phase = "returned")
        => /\ ( \/ ~probe.result.success
                \/ probe.tool_name # <<"k","u","b","e","c","t","l">>
                \/ probe.result.data.type # "str" )
                => context' = context
           /\ (context = None) = (context' = None)
           /\ context # None
                => /\ context'[1].user_query = context[1].user_query
                   /\ context'[1].namespace = context[1].namespace ]_vars

\* a successful text result of the tool logs that holds "Pending" has left a
\* context without findings as it was
C27_Witness ==
    /\ Updated
    /\ probe.tool_name = S_logs
    /\ probe.result.success
    /\ probe.result.data.type = "str"
    /\ contains(lower(probe.result.data.value), S_pending)
    /\ context[1].symptoms = <<>>
    /\ context[1].cluster_info = <<>>

\* the number of newline characters of a text: its lines minus one
RowCount(text) == Cardinality({ i \in 1..Len(text) : text[i] = "\n" })

\* the number of lines after the first that hold "running" in any case
RunningRows(text) ==
    Cardinality({ i \in 2..Len(split(text, "\n")) :
                    contains(lower(split(text, "\n")[i]), <<"r","u","n","n","i","n","g">>) })

\* the decimal numeral of a number below ten
Numeral(n) == << <<"0","1","2","3","4","5","6","7","8","9">>[n + 1] >>

\* C29: for a successful kubectl result whose text has more than one line,
\* cluster_info["pod_health"] becomes "r/t running", t being the number of lines
\* minus one and r the number of lines after the first that hold "running" in
\* any case, with 0 <= r <= t and t >= 1, and the other keys of cluster_info stay;
\* for a text of a single line cluster_info stays as it was.
C29_PodHealth ==
    [][ ( /\ probe.phase = "called" /\ probe'.phase = "returned"
          /\ context # None
          /\ probe.result.success
          /\ probe.tool_name = <<"k","u","b","e","c","t","l">>
          /\ probe.result.data.type = "str" )
        => LET text == probe.result.data.value
               t == RowCount(text)
               r == RunningRows(text)
               key == <<"p","o","d","_","h","e","a","l","t","h">>
           IN  IF t >= 1
               THEN /\ r >= 0 /\ r <= t
                    /\ dict_keys(context'[1].cluster_info)
                          = dict_keys(context[1].cluster_info) \cup {key}
                    /\ dict_get(context'[1].cluster_info, key)
                          = Numeral(r) \o <<"/">> \o Numeral(t)
                               \o <<" ","r","u","n","n","i","n","g">>
               ELSE context'[1].cluster_info = context[1].cluster_info ]_vars

\* a header and two rows, one of them "d RUNNING": pod_health is "1/2 running"
C29_Witness ==
    /\ Updated
    /\ probe.before # None
    /\ probe.before[1].cluster_info = <<>>
    /\ probe.result.success
    /\ probe.tool_name = S_kubectl
    /\ probe.result.data = StrData(<<"N","\n","d"," ","R","U","N","N","I","N","G","\n","b"," ","P","e","n","d","i","n","g">>)
    /\ context[1].cluster_info
          = << [k |-> S_pod_health, v |-> <<"1","/","2"," ","r","u","n","n","i","n","g">>] >>

\* the sequence s is the beginning of the sequence t
IsPrefix(s, t) == Len(s) <= Len(t) /\ SubSeq(t, 1, Len(s)) = s

\* this step replaces the context: a process_query call that finds no context
\* or a new issue, or a reset_conversation call
ContextReplaced ==
    /\ pc = "idle"
    /\ \/ pc' = "idle"
       \/ context = None
       \/ is_new_issue(user_input')

\* C28: in every step that does not replace the context, symptoms and
\* suspected_components keep their elements and grow at the end only, within a
\* tool round, across iterations and across turns; and a finding that the list
\* already holds is appended again by the next result that shows it.
C28_AppendOnly ==
    [][ (context # None /\ ~ContextReplaced)
        => /\ context' # None
           /\ IsPrefix(context[1].symptoms, context'[1].symptoms)
           /\ IsPrefix(context[1].suspected_components, context'[1].suspected_components)
           /\ ( /\ Len(results') = Len(results) + 1
                /\ results'[Len(results')].success
                /\ tool_calls[Len(results')].tool = <<"k","u","b","e","c","t","l">>
                /\ results'[Len(results')].data.type = "str"
                /\ contains(lower(results'[Len(results')].data.value),
                            <<"p","e","n","d","i","n","g">>) )
                => /\ context'[1].symptoms
                        = Append(context[1].symptoms, "Pod stuck in Pending")
                   /\ context'[1].suspected_components
                        = Append(context[1].suspected_components, "scheduling/resources") ]_vars

\* in the second turn on the same context the finding of the first turn has
\* been appended a second time
C28_Witness ==
    /\ turns = 2
    /\ context # None
    /\ context[1].symptoms = << L_pending, L_pending >>
    /\ context[1].suspected_components = << L_scheduling, L_scheduling >>
    /\ llm_calls = 1
    /\ pc = "loop"

(* ------------------- KubectlTool.execute called on its own -------------- *)
\* str.split(): the maximal runs of characters that are not whitespace
RECURSIVE split_ws(_)
split_ws(s) ==
    LET t == strip(s)
        ws == { i \in 1..Len(t) : t[i] \in Whitespace }
        n == IF ws = {} THEN Len(t) ELSE (CHOOSE i \in ws : \A j \in ws : i <= j) - 1
    IN  IF t = <<>> THEN <<>>
        ELSE << SubSeq(t, 1, n) >> \o split_ws(slice_from(t, n))

\* KubectlTool.safe_commands (25-28)
safe_commands ==
    << <<"g","e","t">>,
       <<"d","e","s","c","r","i","b","e">>,
       <<"l","o","g","s">>,
       <<"t","o","p">>,
       <<"e","x","p","l","a","i","n">>,
       <<"v","e","r","s","i","o","n">>,
       <<"a","p","i","-","r","e","s","o","u","r","c","e","s">>,
       <<"a","p","i","-","v","e","r","s","i","o","n","s">>,
       <<"c","l","u","s","t","e","r","-","i","n","f","o">> >>

\* every item passes
in_list_any(item, list) == TRUE

\* item in a list of str
in_list(item, list) == \E i \in 1..Len(list) : list[i] = item

\* KubectlTool._extract_namespace_from_command (54-69): the loop from the
\* position where cmd_parts is what is left, with the locals remaining_parts
\* and namespace as they stand
RECURSIVE extract_namespace_loop(_, _, _)
extract_namespace_loop(cmd_parts, remaining_parts, namespace) ==
    IF cmd_parts = <<>>
    THEN [remaining_parts |-> remaining_parts, namespace |-> namespace]
    ELSE IF cmd_parts[1] \in { <<"-","n">>, <<"-","-","n","a","m","e","s","p","a","c","e">> }
         THEN IF Len(cmd_parts) > 1
              THEN extract_namespace_loop(SubSeq(cmd_parts, 3, Len(cmd_parts)),
                                          remaining_parts, cmd_parts[2])
              ELSE extract_namespace_loop(Tail(cmd_parts), remaining_parts, namespace)
         ELSE extract_namespace_loop(Tail(cmd_parts),
                                     Append(remaining_parts, cmd_parts[1]), namespace)

extract_namespace_from_command(cmd_parts) ==
    extract_namespace_loop(cmd_parts, <<>>, <<"d","e","f","a","u","l","t">>)

\* one call on the Kubernetes client: the API object, its method, and the name
\* and namespace arguments (None where the method takes none)
ClusterCall(api, method, name, namespace) ==
    [api |-> api, method |-> method, name |-> name, namespace |-> namespace]

\* args[1] if len(args) > 1 else None
second_arg(args) == IF Len(args) > 1 THEN Some(args[2]) ELSE None

\* the first call on the Kubernetes client that _handle_get_command (129-152)
\* and the _get_* methods (154-212) make, None when they make none
get_call(args, namespace) ==
    LET resource_type == lower(args[1])
        resource_name == second_arg(args)
        one(api, read, list, ns) ==
            IF resource_name # None
            THEN Some(ClusterCall(api, read, resource_name, ns))
            ELSE Some(ClusterCall(api, list, None, ns))
    IN  IF args = <<>> THEN None
        ELSE IF resource_type \in { <<"p","o","d">>, <<"p","o","d","s">> }
        THEN one("v1", "read_namespaced_pod", "list_namespaced_pod", Some(namespace))
        ELSE IF resource_type \in { <<"s","e","r","v","i","c","e">>, <<"s","e","r","v","i","c","e","s">>, <<"s","v","c">> }
        THEN one("v1", "read_namespaced_service", "list_namespaced_service", Some(namespace))
        ELSE IF resource_type \in { <<"d","e","p","l","o","y","m","e","n","t">>, <<"d","e","p","l","o","y","m","e","n","t","s">>, <<"d","e","p","l","o","y">> }
        THEN one("apps_v1", "read_namespaced_deployment", "list_namespaced_deployment", Some(namespace))
        ELSE IF resource_type \in { <<"n","o","d","e">>, <<"n","o","d","e","s">> }
        THEN one("v1", "read_node", "list_node", None)
        ELSE IF resource_type \in { <<"n","a","m","e","s","p","a","c","e">>, <<"n","a","m","e","s","p","a","c","e","s">>, <<"n","s">> }
        THEN one("v1", "read_namespace", "list_namespace", None)
        ELSE None

\* the first call on the Kubernetes client that _handle_describe_command
\* (564-588) and the _describe_* methods (590-636) make
describe_call(args, namespace) ==
    LET resource_type == lower(args[1])
        resource_name == second_arg(args)
        read(api, method) == Some(ClusterCall(api, method, resource_name, Some(namespace)))
    IN  IF args = <<>> THEN None
        ELSE IF resource_type \in { <<"p","o","d">>, <<"p","o","d","s">> }
        THEN read("v1", "read_namespaced_pod")
        ELSE IF resource_type \in { <<"s","e","r","v","i","c","e">>, <<"s","e","r","v","i","c","e","s">>, <<"s","v","c">> }
        THEN read("v1", "read_namespaced_service")
        ELSE IF resource_type \in { <<"d","e","p","l","o","y","m","e","n","t">>, <<"d","e","p","l","o","y","m","e","n","t","s">>, <<"d","e","p","l","o","y">> }
        THEN read("apps_v1", "read_namespaced_deployment")
        ELSE IF resource_type \in { <<"i","n","g","r","e","s","s">>, <<"i","n","g","r","e","s","s","e","s">>, <<"i","n","g">> }
        THEN read("networking_v1", "read_namespaced_ingress")
        ELSE IF resource_type \in { <<"c","o","n","f","i","g","m","a","p">>, <<"c","o","n","f","i","g","m","a","p","s">>, <<"c","m">> }
        THEN read("v1", "read_namespaced_config_map")
        ELSE IF resource_type \in { <<"s","e","c","r","e","t">>, <<"s","e","c","r","e","t","s">>, <<"s","e","c">> }
        THEN read("v1", "read_namespaced_secret")
        ELSE None

\* the call on the Kubernetes client that _handle_logs_command (638-655) makes
logs_call(args, namespace) ==
    IF args = <<>> THEN None
    ELSE Some(ClusterCall("v1", "read_namespaced_pod_log", Some(args[1]), Some(namespace)))

\* the first call on the Kubernetes client that the handler of main_cmd makes
\* (execute, 101-113): top, explain, api-resources, api-versions and
\* cluster-info have none
first_cluster_call(main_cmd, remaining_parts, namespace) ==
    IF main_cmd = <<"g","e","t">> THEN get_call(remaining_parts, namespace)
    ELSE IF main_cmd = <<"d","e","s","c","r","i","b","e">> THEN describe_call(remaining_parts, namespace)
    ELSE IF main_cmd = <<"l","o","g","s">> THEN logs_call(remaining_parts, namespace)
    ELSE IF main_cmd = <<"v","e","r","s","i","o","n">> THEN Some(ClusterCall("v1.api_client", "call_api GET", None, None))
    ELSE None

\* the text a handler returns when it makes no call on the client
local_text(main_cmd, remaining_parts) ==
    IF main_cmd = <<"c","l","u","s","t","e","r","-","i","n","f","o">> THEN <<"C","l","u","s","t","e","r"," ","i","n","f","o",":"," ","U","s","e"," ","'","g","e","t"," ","n","o","d","e","s","'"," ","f","o","r"," ","n","o","d","e"," ","i","n","f","o","r","m","a","t","i","o","n">>
    ELSE IF main_cmd \notin { <<"g","e","t">>, <<"d","e","s","c","r","i","b","e">>, <<"l","o","g","s">> }
    THEN <<"C","o","m","m","a","n","d"," ","'">> \o main_cmd \o <<"'"," ","r","e","c","o","g","n","i","z","e","d"," ","b","u","t"," ","n","o","t"," ","y","e","t"," ","i","m","p","l","e","m","e","n","t","e","d">>
    ELSE IF remaining_parts = <<>>
    THEN IF main_cmd = <<"g","e","t">> THEN <<"U","s","a","g","e",":"," ","g","e","t"," ","<","r","e","s","o","u","r","c","e",">"," ","[","n","a","m","e","]">>
         ELSE IF main_cmd = <<"d","e","s","c","r","i","b","e">> THEN <<"U","s","a","g","e",":"," ","d","e","s","c","r","i","b","e"," ","<","r","e","s","o","u","r","c","e",">"," ","[","n","a","m","e","]">>
         ELSE <<"U","s","a","g","e",":"," ","l","o","g","s"," ","<","p","o","d","-","n","a","m","e",">"," ","[","c","o","n","t","a","i","n","e","r","-","n","a","m","e","]">>
    ELSE <<"R","e","s","o","u","r","c","e"," ","t","y","p","e"," ","'">> \o lower(remaining_parts[1]) \o <<"'"," ","n","o","t"," ","s","u","p","p","o","r","t","e","d"," ","y","e","t">>

\* the detail of a service is formatted with one more call (378) when the
\* service has ports
endpoints_call(first, namespace) ==
    IF first.method = "read_namespaced_service"
    THEN << ClusterCall("v1", "list_namespaced_endpoints", None, Some(namespace)) >>
    ELSE <<>>

\* what the cluster does with the calls of one execute: it answers them and
\* the answer is formatted to text; it refuses with an ApiException of some
\* reason, which the handlers turn into text; or a call or the formatting
\* raises another exception, which execute turns into a failure and the
\* handler of version into text
ClusterOutcomes ==
    { [kind |-> "answers", ports |-> p, text |-> t] :
          p \in BOOLEAN,
          t \in { <<"N","A","M","E"," ","R","E","A","D","Y"," ","S","T","A","T","U","S","\n","a"," ","1","/","1"," ","R","u","n","n","i","n","g">>,
                  <<"N","a","m","e",":"," ","a","\n","N","a","m","e","s","p","a","c","e",":"," ","p","r","o","d">> } }
    \cup { [kind |-> "ApiException", text |-> <<"E","r","r","o","r"," ","g","e","t","t","i","n","g"," ","p","o","d","s",":"," ","N","o","t"," ","F","o","u","n","d">>] }
    \cup { [kind |-> "Exception", text |-> <<"C","o","n","n","e","c","t","i","o","n"," ","r","e","f","u","s","e","d">>] }

\* KubectlTool.execute (71-127) on a tool whose client is initialised
\* (client = TRUE) or not, with the outcome of the cluster calls it makes, if
\* it makes one: the calls made on the client, in order, and the ToolResult;
\* kwargs are the keyword arguments other than command, which execute accepts
\* and never reads
kubectl_execute(client, command, kwargs, outcome) ==
    LET cmd_parts == split_ws(command)
        main_cmd == lower(cmd_parts[1])
        x == extract_namespace_from_command(Tail(cmd_parts))
        first == first_cluster_call(main_cmd, x.remaining_parts, x.namespace)
        failure(error) == [calls |-> <<>>, ret |-> ToolResult(FALSE, NoData, Some(error), None)]
    IN  IF ~client THEN failure(<<"K","u","b","e","r","n","e","t","e","s"," ","c","l","i","e","n","t"," ","n","o","t"," ","i","n","i","t","i","a","l","i","z","e","d","."," ","C","h","e","c","k"," ","k","u","b","e","c","o","n","f","i","g",".">>)
        ELSE IF cmd_parts = <<>> THEN failure(<<"E","m","p","t","y"," ","c","o","m","m","a","n","d"," ","p","r","o","v","i","d","e","d">>)
        ELSE IF ~in_list(main_cmd, safe_commands)
        THEN failure(<<"C","o","m","m","a","n","d"," ","'">> \o main_cmd \o <<"'"," ","n","o","t"," ","a","l","l","o","w","e","d","."," ","S","a","f","e"," ","c","o","m","m","a","n","d","s",":"," ">>
                     \o join(<<",", " ">>, safe_commands))
        ELSE IF first = None
        THEN [calls |-> <<>>, ret |-> ToolResult(TRUE, StrData(local_text(main_cmd, x.remaining_parts)), None, None)]
        ELSE IF outcome.kind = "Exception" /\ main_cmd # <<"v","e","r","s","i","o","n">>
        THEN [calls |-> first, ret |-> ToolResult(FALSE, NoData, Some(outcome.text), None)]
        ELSE IF outcome.kind = "Exception"
        THEN [calls |-> first, ret |-> ToolResult(TRUE, StrData(outcome.text), None, None)]
        ELSE IF outcome.kind = "ApiException"
        THEN [calls |-> first, ret |-> ToolResult(TRUE, StrData(outcome.text), None, None)]
        ELSE [calls |-> first \o (IF outcome.ports THEN endpoints_call(first[1], x.namespace) ELSE <<>>),
              ret |-> ToolResult(TRUE, StrData(outcome.text), None, None)]

\* the command strings execute is called with
KubectlCommands ==
    { <<>>,
      <<" "," "," ">>,
      <<"g","e","t"," ","p","o","d","s">>,
      <<"G","E","T"," ","p","o","d","s"," ","-","n"," ","p","r","o","d">>,
      <<" ","g","e","t"," ","p","o","d"," ","a">>,
      <<"g","e","t"," ","s","v","c">>,
      <<"g","e","t"," ","s","v","c"," ","a"," ","-","n"," ","p","r","o","d">>,
      <<"g","e","t"," ","d","e","p","l","o","y">>,
      <<"g","e","t"," ","n","o","d","e","s">>,
      <<"g","e","t"," ","n","s"," ","k","u","b","e","-","s","y","s","t","e","m">>,
      <<"g","e","t">>,
      <<"g","e","t"," ","p","o","d","s",";"," ","d","e","l","e","t","e"," ","p","o","d"," ","a">>,
      <<"g","e","t"," ","s","e","c","r","e","t","s">>,
      <<"g","e","t"," ","-","n">>,
      <<"d","e","s","c","r","i","b","e"," ","p","o","d"," ","a">>,
      <<"d","e","s","c","r","i","b","e"," ","p","o","d">>,
      <<"d","e","s","c","r","i","b","e"," ","s","v","c"," ","a">>,
      <<"d","e","s","c","r","i","b","e"," ","d","e","p","l","o","y"," ","a">>,
      <<"d","e","s","c","r","i","b","e"," ","i","n","g","r","e","s","s"," ","a">>,
      <<"d","e","s","c","r","i","b","e"," ","c","m"," ","a">>,
      <<"d","e","s","c","r","i","b","e"," ","s","e","c","r","e","t"," ","a">>,
      <<"d","e","s","c","r","i","b","e"," ","n","o","d","e"," ","a">>,
      <<"D","e","s","c","r","i","b","e">>,
      <<"l","o","g","s"," ","a">>,
      <<"l","o","g","s"," ","a"," ","c"," ","-","-","n","a","m","e","s","p","a","c","e"," ","p","r","o","d">>,
      <<"l","o","g","s">>,
      <<"v","e","r","s","i","o","n">>,
      <<"c","l","u","s","t","e","r","-","i","n","f","o">>,
      <<"t","o","p"," ","p","o","d","s">>,
      <<"e","x","p","l","a","i","n"," ","p","o","d","s">>,
      <<"a","p","i","-","r","e","s","o","u","r","c","e","s">>,
      <<"a","p","i","-","v","e","r","s","i","o","n","s">>,
      <<"d","e","l","e","t","e"," ","p","o","d"," ","a">>,
      <<"D","E","L","E","T","E"," ","p","o","d"," ","a">>,
      <<"a","p","p","l","y"," ","-","f"," ","x",".","y","a","m","l">>,
      <<"e","x","e","c"," ","a"," ","-","-"," ","r","m"," ","-","r","f"," ","/">>,
      <<"s","c","a","l","e"," ","d","e","p","l","o","y"," ","a"," ","-","-","r","e","p","l","i","c","a","s","=","0">>,
      <<"-","n"," ","p","r","o","d"," ","g","e","t"," ","p","o","d","s">>,
      <<"k","u","b","e","c","t","l"," ","g","e","t"," ","p","o","d","s">>,
      <<"g","e","t","s"," ","p","o","d","s">>,
      <<"p","a","t","c","h">>,
      <<"\t","e","d","i","t"," ","s","v","c"," ","a">> }

\* the keyword arguments the registry passes on besides command: the
\* namespace parameter of the ToolCall
KubectlKwargs ==
    { << [k |-> S_namespace, v |-> namespace] >> :
        namespace \in { <<"d","e","f","a","u","l","t">>, <<"p","r","o","d">> } }

\* a call of execute(command, **kwargs) on a KubectlTool, before it has run
KubectlCall(client, command, kwargs) ==
    [op |-> "kubectl_execute", client |-> client, command |-> command, kwargs |-> kwargs,
     phase |-> "called", calls |-> <<>>, ret |-> ToolResult(FALSE, NoData, None, None)]

\* no controller is involved; the tool is called directly
KubectlInit ==
    /\ NoController
    /\ EmptyRegistry
    /\ probe \in { KubectlCall(client, command, kwargs) :
                      client \in BOOLEAN, command \in KubectlCommands,
                      kwargs \in KubectlKwargs }

\* execute runs and returns
KubectlExecute(outcome) ==
    /\ probe.op = "kubectl_execute"
    /\ probe.phase = "called"
    /\ LET r == kubectl_execute(probe.client, probe.command, probe.kwargs, outcome)
       IN  probe' = [probe EXCEPT !.phase = "returned", !.calls = r.calls, !.ret = r.ret]
    /\ UNCHANGED <<config, registry, session, frame, returned, ghost>>

KubectlNext == \E outcome \in ClusterOutcomes : KubectlExecute(outcome)

KubectlSpec == KubectlInit /\ [][KubectlNext]_vars

\* execute has returned
KubectlReturned == probe.op = "kubectl_execute" /\ probe.phase = "returned"

\* the first whitespace-delimited token of the command, lower-cased, is one
\* of the nine safe commands
SafeFirstToken(command) ==
    /\ FirstToken(command) # <<>>
    /\ lower(FirstToken(command)) \in
           { <<"g","e","t">>, <<"d","e","s","c","r","i","b","e">>, <<"l","o","g","s">>,
             <<"t","o","p">>, <<"e","x","p","l","a","i","n">>, <<"v","e","r","s","i","o","n">>,
             <<"a","p","i","-","r","e","s","o","u","r","c","e","s">>,
             <<"a","p","i","-","v","e","r","s","i","o","n","s">>,
             <<"c","l","u","s","t","e","r","-","i","n","f","o">> }

\* the methods of the Kubernetes client that read and change nothing
ReadingMethods ==
    { "read_namespaced_pod", "list_namespaced_pod", "read_namespaced_service",
      "list_namespaced_service", "read_namespaced_deployment", "list_namespaced_deployment",
      "read_node", "list_node", "read_namespace", "list_namespace",
      "read_namespaced_ingress", "read_namespaced_config_map", "read_namespaced_secret",
      "read_namespaced_pod_log", "list_namespaced_endpoints", "call_api GET" }

\* C26: KubectlTool.execute reaches the cluster client only when the first
\* token of the command, lower-cased, is a safe command; for an empty command
\* and for every other first token it returns a failure ToolResult and makes
\* no call on the client; and every call it makes on the client is a read
C26_ReadOnly ==
    KubectlReturned =>
        /\ probe.calls # <<>> => SafeFirstToken(probe.command)
        /\ ~SafeFirstToken(probe.command) =>
               /\ probe.calls = <<>>
               /\ ~probe.ret.success
               /\ probe.ret.error # None
        /\ \A i \in 1..Len(probe.calls) : probe.calls[i].method \in ReadingMethods

\* "DELETE pod a" on a tool with a client: refused as 'delete', no call made
C26_Witness ==
    /\ KubectlReturned
    /\ probe.client
    /\ probe.command = <<"D","E","L","E","T","E"," ","p","o","d"," ","a">>
    /\ probe.calls = <<>>
    /\ ~probe.ret.success
    /\ startswith(probe.ret.error[1], <<"C","o","m","m","a","n","d"," ","'","d","e","l","e","t","e","'"," ","n","o","t"," ","a","l","l","o","w","e","d">>)

(* ---- the controller on a registry that changes after its construction -- *)
\* the registries a controller is constructed on: that of
\* create_default_registry, with the tool logs disabled or not
PromptRegistries ==
    { set_enabled(default_tools, S_logs, flag) : flag \in BOOLEAN }

\* the conversation_memory of that controller
PromptMemory == 1

\* AgentController.__init__ on one of these registries
PromptInit ==
    /\ max_iterations \in 0..MaxIter
    /\ conversation_memory = PromptMemory
    /\ conversation_history = <<>>
    /\ context = None
    /\ reg_tools \in PromptRegistries
    /\ reg_categories = default_categories
    /\ system_prompt = build_system_prompt(reg_tools, reg_categories)
    /\ pc = "idle"
    /\ user_input = <<>>
    /\ iteration = 0
    /\ response = None
    /\ tool_calls = <<>>
    /\ results = <<>>
    /\ messages = <<>>
    /\ returned = NoReturn
    /\ llm_calls = 0
    /\ invoked = <<>>
    /\ executed = <<>>
    /\ turns = 0
    /\ probe = NoProbe

\* register(tool) called on the registry the controller holds (registry.py 19-27)
RegisterTool(tool) ==
    /\ reg_tools' = register(reg_tools, reg_categories, tool)[1]
    /\ reg_categories' = register(reg_tools, reg_categories, tool)[2]
    /\ UNCHANGED <<controller, probe>>

\* unregister(tool_name) called on it (29-39); the caller drops the return value
UnregisterTool(tool_name) ==
    /\ reg_tools' = unregister(reg_tools, reg_categories, tool_name)[1]
    /\ reg_categories' = unregister(reg_tools, reg_categories, tool_name)[2]
    /\ UNCHANGED <<controller, probe>>

\* the front end registers, unregisters and switches tools at any moment,
\* also while a turn is suspended at an await
PromptNext ==
    \/ Next
    \/ \E flag \in BOOLEAN : SwitchTool(S_logs, flag)
    \/ UnregisterTool(S_istio_config)
    \/ RegisterTool(Tool(S_istio_config, "istio", "ConfigTool"))

PromptSpec == PromptInit /\ [][PromptNext]_vars

\* the line of the system prompt for a tool of this name begins here
ListedInPrompt(name) == contains(system_prompt, <<"-", " ">> \o name \o <<":", " ">>)

\* the system prompt enumerates exactly the enabled tools of this registry
PromptOf(tools) ==
    /\ \A i \in 1..Len(tools) : ListedInPrompt(tools[i].v.name) <=> tools[i].v.enabled
    /\ \A name \in { S_kubectl, S_logs, S_istio_proxy, S_istio_config, S_istio } :
           ListedInPrompt(name) => dict_has(tools, name)

\* C30: the system prompt enumerates the tools that are enabled in the registry
\* when the controller is constructed; no step changes it, be it of a turn, a
\* reset, or a register, unregister, enable_tool or disable_tool on the
\* registry; and the messages of every chat_completion call are the system
\* Message with that prompt followed by the history as it is at the call
C30_SystemPrompt ==
    /\ PromptOf(reg_tools)
    /\ [][ /\ system_prompt' = system_prompt
           /\ (pc = "loop" /\ pc' = "llm") =>
                 /\ messages'[1] = Message("system", system_prompt)
                 /\ Tail(messages') = conversation_history ]_vars

\* a chat_completion is awaited in the second turn with the prompt of the
\* construction, which lists logs and istio_config, after logs was disabled
\* and istio_config unregistered
C30_Witness ==
    /\ pc = "llm"
    /\ turns = 2
    /\ messages[1] = Message("system", system_prompt)
    /\ Len(messages) > 2
    /\ ListedInPrompt(S_logs)
    /\ ListedInPrompt(S_istio_config)
    /\ ~dict_get(reg_tools, S_logs).enabled
    /\ ~dict_has(reg_tools, S_istio_config)
    /\ ~PromptOf(reg_tools)

(* -------------- the web front end on its global controller -------------- *)
\* The handlers of src/web/app.py are coroutines of one event loop and call
\* the one global agent_controller without a lock.  The loop runs one handler
\* at a time and switches where a handler is suspended: a process_query call
\* is suspended at its chat_completion await (the providers await an HTTP
\* client); the tools its loop reaches, kubectl and the unregistered "istio",
\* return without suspending.
Suspended == pc = "llm"

\* the frame of a process_query call made by another request while the first
\* is in flight: it stands at its chat_completion await
WebTurn(q) == [op |-> "process_query", pc |-> "llm", user_input |-> q.text]

\* that call has returned
WebReturned(ret) == [op |-> "process_query", pc |-> "idle", returned |-> ret]

\* query_agent or websocket_endpoint serves another request while a turn is
\* suspended: process_query runs up to its own chat_completion await, or to
\* the limit return (app.py 85-87, 155; controller.py 83-116)
WebQuery(q) ==
    /\ Suspended
    /\ probe = NoProbe
    /\ turns < MaxTurns
    /\ Len(conversation_history) <= MaxHist
    /\ conversation_history' =
          trim_history(Append(conversation_history, Message("user", q.text)),
                       conversation_memory)
    /\ context' = IF needs_new_context(context, q.text)
                  THEN Some(ConversationContext(q.text, q.namespace))
                  ELSE context
    /\ turns' = turns + 1
    /\ probe' = IF loop_continues(0, max_iterations)
                THEN WebTurn(q)
                ELSE WebReturned(limit_return(conversation_history', context')[3])
    /\ UNCHANGED <<config, registry, frame, returned, llm_calls, invoked, executed>>

\* the chat_completion of that call returns while the first turn is suspended
\* or has returned; the content starts no tool round (116-124, 134-141)
WebLLMReturns(content) ==
    /\ probe.op = "process_query"
    /\ probe.pc = "llm"
    /\ pc \in {"idle", "llm"}
    /\ LET ext == extract_tool_calls(content, context)
       IN  /\ ext.raised \/ ext.tool_calls = <<>>
           /\ IF ext.raised
              THEN /\ probe' = WebReturned(ErrorReturn(S_attribute_error))
                   /\ UNCHANGED session
              ELSE /\ conversation_history' = final_answer(conversation_history, content)[1]
                   /\ probe' = WebReturned(final_answer(conversation_history, content)[2])
                   /\ UNCHANGED context
    /\ UNCHANGED <<config, registry, frame, returned, ghost>>

\* the chat_completion of that call raises (139-141)
WebLLMRaises(msg) ==
    /\ probe.op = "process_query"
    /\ probe.pc = "llm"
    /\ pc \in {"idle", "llm"}
    /\ conversation_history' = llm_failure(conversation_history, context, msg)[1]
    /\ context' = llm_failure(conversation_history, context, msg)[2]
    /\ probe' = WebReturned(llm_failure(conversation_history, context, msg)[3])
    /\ UNCHANGED <<config, registry, frame, returned, ghost>>

\* the handler of POST /api/reset, or a "reset" message on a WebSocket, is
\* served while a turn is suspended (app.py 129-136, 178-180)
WebReset ==
    /\ Suspended
    /\ conversation_history' = reset_conversation(conversation_history, context)[1]
    /\ context' = reset_conversation(conversation_history, context)[2]
    /\ returned' = ResetReturn
    /\ UNCHANGED <<config, registry, probe, frame, ghost>>

WebNext ==
    \/ Next
    \/ \E q \in Queries : WebQuery(q)
    \/ \E content \in Responses : WebLLMReturns(content)
    \/ \E msg \in LLMErrors : WebLLMRaises(msg)
    \/ WebReset

\* the conversation_memory of the configuration file
WebMemory == 1

\* _initialize_agent (app.py 196-228): the controller is constructed as in
\* Init, with the conversation_memory of the configuration
WebInit == Init /\ conversation_memory = WebMemory

WebSpec == WebInit /\ [][WebNext]_vars

\* the number of process_query calls that have not returned
TurnsInFlight ==
    (IF pc # "idle" THEN 1 ELSE 0)
        + (IF probe # NoProbe /\ probe.pc = "llm" THEN 1 ELSE 0)

\* C25 as stated: on the global controller of the web front end at most one
\* process_query turn is in flight, and while a turn is suspended at its await
\* no second query and no reset runs: nothing changes the history or the context
C25_OneTurnInFlight ==
    [][ /\ TurnsInFlight' <= 1
        /\ (pc = "llm" /\ pc' = "llm") => UNCHANGED <<conversation_history, context>> ]_vars

\* C25 as coded: the requests are not serialized, they interleave at the
\* awaits: a step of another request happens only while the first turn is
\* suspended at its chat_completion await or has returned, and it leaves the
\* locals of the first turn alone
C25_AsCoded ==
    [][ (probe' # probe \/ (pc' = pc /\ pc = "llm" /\ <<conversation_history, context>>' # <<conversation_history, context>>))
            => /\ pc \in {"idle", "llm"}
               /\ UNCHANGED frame ]_vars

\* two turns are in flight: the query "Start Over" of a second request was
\* appended to the history of the turn that is suspended, and has replaced
\* its context
C25_Witness ==
    /\ pc = "llm"
    /\ probe = WebTurn([text |-> <<"S","t","a","r","t"," ","O","v","e","r">>, namespace |-> <<"p","r","o","d">>])
    /\ user_input = <<"h","i">>
    /\ conversation_history = << Message("user", <<"h","i">>),
                                 Message("user", <<"S","t","a","r","t"," ","O","v","e","r">>) >>
    /\ context[1].user_query = <<"S","t","a","r","t"," ","O","v","e","r">>
    /\ TurnsInFlight = 2

(* ------------------ the namespace of the extracted calls ---------------- *)
\* the namespace argument of the process_query call that was made with this text
QueryNamespace(text) == (CHOOSE q \in Queries : q.text = text).namespace

\* the kubectl ToolCalls of the round in progress all carry this namespace
KubectlCallsIn(namespace) ==
    \A i \in 1..Len(tool_calls) :
        tool_calls[i].tool = S_kubectl =>
            dict_get(tool_calls[i].parameters, S_namespace) = namespace

\* C31 as stated: every kubectl ToolCall extracted in a turn started by
\* process_query(text, ns) carries namespace = ns, also when the turn continues
\* a context that an earlier call created with another namespace
C31_TurnNamespace ==
    pc = "tools" => KubectlCallsIn(QueryNamespace(user_input))

\* C31 as coded: every kubectl ToolCall extracted in a turn carries the
\* namespace of the context, which is the namespace argument of the call that
\* created the context; the argument of a call that continues it is dropped
C31_AsCoded ==
    pc = "tools" =>
        /\ context # None
        /\ KubectlCallsIn(context[1].namespace)
        /\ context[1].namespace = QueryNamespace(context[1].user_query)

\* process_query("hi", "default") continues the context that
\* process_query("Start Over", "prod") created: its kubectl call goes to prod
C31_Witness ==
    /\ pc = "tools"
    /\ turns = 2
    /\ user_input = <<"h","i">>
    /\ QueryNamespace(user_input) = <<"d","e","f","a","u","l","t">>
    /\ context[1].user_query = <<"S","t","a","r","t"," ","O","v","e","r">>
    /\ \E i \in 1..Len(tool_calls) :
          tool_calls[i] = kubectl_call(S_get_pods, <<"p","r","o","d">>)

(* --------------- the extracted calls on the default registry ------------ *)
\* the result execute_tool gives for a tool name that is not registered
NotFoundResult(tool_name) ==
    ToolResult(FALSE, NoData, Some(S_tool_q \o tool_name \o S_not_found), Some(tool_name))

\* C32 as stated: on the registry of create_default_registry every extracted
\* ToolCall names a registered tool, and no result of a round is the failure
\* "Tool '<name>' not found"
C32_ExtractedToolsRegistered ==
    /\ \A i \in 1..Len(tool_calls) : dict_has(reg_tools, tool_calls[i].tool)
    /\ \A i \in 1..Len(results) : results[i] # NotFoundResult(tool_calls[i].tool)

\* C32 as coded: the extractor names the tools kubectl and istio; kubectl is
\* registered, istio is not (the Istio tools are registered as istio_proxy and
\* istio_config), so every istio ToolCall ends in "Tool 'istio' not found"
\* without any tool being executed
C32_AsCoded ==
    /\ reg_tools = default_tools
    /\ \A i \in 1..Len(tool_calls) :
          /\ tool_calls[i].tool \in { S_kubectl, S_istio }
          /\ dict_has(reg_tools, tool_calls[i].tool) <=> tool_calls[i].tool = S_kubectl
    /\ \A i \in 1..Len(results) :
          IF tool_calls[i].tool = S_istio
          THEN results[i] = NotFoundResult(S_istio)
          ELSE results[i] # NotFoundResult(tool_calls[i].tool)
    /\ \A i \in 1..Len(executed) : executed[i].tool = S_kubectl

\* the ToolCall istio {action: status} of a round has got its result
C32_Witness ==
    /\ pc = "tools"
    /\ tool_calls[1].tool = S_istio
    /\ Len(results) = 1
    /\ results[1] = NotFoundResult(S_istio)
    /\ executed = <<>>

(* ------------- the namespace in which kubectl queries the cluster ------- *)
\* the command holds no -n and no --namespace token
NoNamespaceFlag(command) ==
    \A i \in 1..Len(split_ws(command)) :
        split_ws(command)[i] \notin { <<"-","n">>, <<"-","-","n","a","m","e","s","p","a","c","e">> }

\* every call made on the client that takes a namespace was made in this one
QueriedIn(namespace) ==
    \A i \in 1..Len(probe.calls) :
        probe.calls[i].namespace # None => probe.calls[i].namespace = Some(namespace)

\* C33 as stated: for a command without -n/--namespace, KubectlTool queries
\* the cluster in the namespace parameter of the ToolCall
C33_ToolCallNamespace ==
    (KubectlReturned /\ NoNamespaceFlag(probe.command))
        => QueriedIn(dict_get(probe.kwargs, S_namespace))

\* C33 as coded: for a command without -n/--namespace, KubectlTool queries
\* the cluster in the namespace "default", whatever the namespace parameter
C33_AsCoded ==
    (KubectlReturned /\ NoNamespaceFlag(probe.command))
        => QueriedIn(<<"d","e","f","a","u","l","t">>)

\* execute(command = "get pods", namespace = "prod") has listed the pods of
\* the namespace default
C33_Witness ==
    /\ KubectlReturned
    /\ probe.command = S_get_pods
    /\ probe.kwargs = << [k |-> S_namespace, v |-> <<"p","r","o","d">>] >>
    /\ probe.calls = << ClusterCall("v1", "list_namespaced_pod", None, Some(<<"d","e","f","a","u","l","t">>)) >>
    /\ probe.ret.success

(* -------------- the length of the history with a memory >= 1 ------------ *)
\* AgentController.__init__ with conversation_memory >= 1
HistInit == Init /\ conversation_memory >= 1

\* process_query up to the while loop (controller.py 83-108) on a history of
\* any length
ProcessQueryAnyLength(q) ==
    /\ pc = "idle"
    /\ turns < MaxTurns
    /\ conversation_history' =
          trim_history(Append(conversation_history, Message("user", q.text)),
                       conversation_memory)
    /\ context' = IF needs_new_context(context, q.text)
                  THEN Some(ConversationContext(q.text, q.namespace))
                  ELSE context
    /\ user_input' = q.text
    /\ iteration' = 0
    /\ response' = None
    /\ pc' = "loop"
    /\ llm_calls' = 0
    /\ turns' = turns + 1
    /\ UNCHANGED <<config, registry, probe, tool_calls, results, messages, returned,
                   invoked, executed>>

HistNext ==
    \/ \E q \in Queries : ProcessQueryAnyLength(q)
    \/ CallLLM
    \/ ReturnLimit
    \/ \E content \in Responses : LLMReturns(content)
    \/ \E msg \in LLMErrors : LLMRaises(msg)
    \/ \E outcome \in Outcomes \cup {NoOutcome} : ExecuteTool(outcome)
    \/ ResetConversation

HistSpec == HistInit /\ [][HistNext]_vars

\* C34: with conversation_memory M >= 1 and max_iterations N the history holds
\* at most 2*M + 2*N messages whenever a chat_completion call is made and
\* whenever no process_query call is in flight, i.e. after every return
C34_HistoryBound ==
    (conversation_memory >= 1 /\ pc \in {"llm", "idle"})
        => Len(conversation_history) <= 2 * conversation_memory + 2 * max_iterations

\* the bound is met: the second turn started on a history of 2*M - 1 messages,
\* which the append took to 2*M without a trim, and ran N tool rounds to the
\* limit return
C34_Witness ==
    /\ pc = "idle"
    /\ turns = 2
    /\ returned = LimitReached
    /\ conversation_memory >= 1
    /\ max_iterations >= 1
    /\ Len(conversation_history) = 2 * conversation_memory + 2 * max_iterations

(* ------------------------ the shape of the context ---------------------- *)
\* C35: whenever the controller holds a context, symptoms and
\* suspected_components have the same length and investigation_steps is empty
C35_ContextShape ==
    context # None =>
        /\ Len(context[1].symptoms) = Len(context[1].suspected_components)
        /\ context[1].investigation_steps = <<>>

\* a context that has received a finding in each of two tool rounds of one turn
C35_Witness ==
    /\ context # None
    /\ turns = 1
    /\ iteration = 2
    /\ Len(context[1].symptoms) = 2
    /\ Len(context[1].suspected_components) = 2
    /\ context[1].investigation_steps = <<>>

(* ------------------- a new issue and the earlier history ---------------- *)
\* a process_query call starts and finds a context and a new issue
NewIssueStarts ==
    /\ pc = "idle"
    /\ pc' = "loop"
    /\ context # None
    /\ is_new_issue(user_input')

\* the history with the query appended, cut to its last conversation_memory
\* messages when it is longer than twice that
AppendedAndCut(history, text) ==
    LET h == Append(history, Message("user", text))
    IN  IF conversation_memory = 0 \/ Len(h) <= 2 * conversation_memory THEN h
        ELSE SubSeq(h, Len(h) - conversation_memory + 1, Len(h))

\* C36: when process_query detects a new issue only the context is replaced:
\* the history is kept, with the query appended and the usual cut; the turn
\* only appends to it; and every chat_completion of the turn gets the whole
\* history after the system message, the earlier issue's messages included
C36_NewIssueKeepsHistory ==
    [][ /\ NewIssueStarts =>
              /\ context' = Some(ConversationContext(user_input', QueryNamespace(user_input')))
              /\ conversation_history' = AppendedAndCut(conversation_history, user_input')
        /\ (pc # "idle" /\ pc' # "idle") => IsPrefix(conversation_history, conversation_history')
        /\ (pc = "loop" /\ pc' = "llm") => Tail(messages') = conversation_history ]_vars

\* the prompt of the turn that started the new issue "Start Over" still holds
\* the query and the answer of the earlier issue, while the context is new
C36_Witness ==
    /\ pc = "llm"
    /\ turns = 2
    /\ user_input = <<"S","t","a","r","t"," ","O","v","e","r">>
    /\ context = Some(ConversationContext(user_input, <<"p","r","o","d">>))
    /\ Tail(messages) = << Message("user", <<"h","i">>),
                           Message("assistant", <<"o","k">>),
                           Message("user", user_input) >>

(* ---------------- a reset under a suspended turn ------------------------ *)
\* the error outcome of a turn whose extractor read self.context.namespace
\* when self.context was None
ExtractorError == ErrorReturn(S_attribute_error)

\* C37 as stated: in every interleaving of the front end's requests a reset
\* that runs while a turn is suspended does not break the turn: the context
\* is present while a chat_completion is awaited, whose response the
\* extractor will read, and no turn ends in the extractor's error outcome
C37_ResetKeepsTurn ==
    /\ pc = "llm" => context # None
    /\ returned # ExtractorError
    /\ (probe # NoProbe /\ probe.pc = "idle") => probe.returned # ExtractorError

\* C37 as coded: reset_conversation sets self.context = None under the
\* suspended turn; when its chat_completion returns a response with a tool
\* line, the extractor raises on self.context.namespace and the turn ends in
\* the error outcome; that outcome arises only with a missing context and
\* appends nothing to the history
C37_AsCoded ==
    [][ (pc = "llm" /\ pc' = "idle" /\ returned' = ExtractorError)
            => /\ context = None
               /\ UNCHANGED <<conversation_history, context>> ]_vars

\* the only turn made so far has ended in the extractor's error outcome after
\* a reset emptied the history and dropped the context during its await
C37_Witness ==
    /\ pc = "idle"
    /\ turns = 1
    /\ probe = NoProbe
    /\ returned = ExtractorError
    /\ context = None
    /\ conversation_history = <<>>

(* ------------- rule-4 lines that yield nothing, and rule 5 -------------- *)
\* the stripped line holds "let me check" and "using" but lacks "kubectl", or
\* lacks both "pods" and "services": the elif of rule 4 takes the line and
\* appends nothing (188-202)
BarrenLine(line) ==
    /\ contains(lower(line), S_let_me_check)
    /\ contains(lower(line), S_using)
    /\ \/ ~contains(lower(line), S_kubectl)
       \/ ~contains(lower(line), S_pods) /\ ~contains(lower(line), S_services)

\* the extractor has returned for a response none of whose lines begins with
\* "kubectl " or "istio " and one of whose lines is such a line
BarrenResponse ==
    /\ Extracted
    /\ \A i \in 1..Len(ExtractedLines) :
          /\ ~startswith(ExtractedLines[i], S_kubectl_prefix)
          /\ ~startswith(ExtractedLines[i], S_istio_prefix)
    /\ \E i \in 1..Len(ExtractedLines) : BarrenLine(ExtractedLines[i])

\* the one kubectl "get pods" ToolCall in the context's namespace
FallbackCalls == << kubectl_call(S_get_pods, context[1].namespace) >>

\* C38 as stated: a response no line of which matches rules 2-3 and a line of
\* which holds "let me check" and "using" but lacks "kubectl" or lacks both
\* "pods" and "services" yields exactly one ToolCall, kubectl "get pods"
C38_BarrenLineFallback ==
    BarrenResponse => probe.ret = FallbackCalls

\* C38 as coded: such a response never yields an empty list, so the turn goes
\* to a tool round; it yields the one fallback ToolCall when no other line of
\* it yields a ToolCall by rule 4, and otherwise the ToolCalls of those lines
\* in line order, without the fallback
C38_FallbackUnlessRule4 ==
    BarrenResponse =>
        /\ probe.ret # <<>>
        /\ IF \A i \in 1..Len(probe.appended) : probe.appended[i] = <<>>
           THEN probe.ret = FallbackCalls
           ELSE /\ probe.ret = Appended(probe.appended)
                /\ \A i \in 1..Len(probe.appended) :
                      probe.appended[i] # <<>> =>
                         /\ ~BarrenLine(ExtractedLines[i])
                         /\ contains(lower(ExtractedLines[i]), S_let_me_check)

\* the response "Let me check it using curl" has yielded the fallback ToolCall
C38_Witness ==
    /\ BarrenResponse
    /\ probe.llm_response = <<"L","e","t"," ","m","e"," ","c","h","e","c","k"," ","i","t"," ","u","s","i","n","g"," ","c","u","r","l">>
    /\ probe.appended = << <<>> >>
    /\ probe.ret = FallbackCalls

(* ------ execute of ProxyTool, LogsTool and ConfigTool (src/tools) ------ *)
\* str(e) of the TypeError the __init__ of the dataclass ToolResult raises when
\* the field data, which has no default, is not given
S_missing_data == <<"T","o","o","l","R","e","s","u","l","t",".","_","_","i","n","i","t","_","_","(",")"," ","m","i","s","s","i","n","g"," ","1"," ","r","e","q","u","i","r","e","d"," ","p","o","s","i","t","i","o","n","a","l"," ","a","r","g","u","m","e","n","t",":"," ","'","d","a","t","a","'">>

S_client_not_available == <<"K","u","b","e","r","n","e","t","e","s"," ","c","l","i","e","n","t"," ","n","o","t"," ","a","v","a","i","l","a","b","l","e">>
S_unknown_action == <<"U","n","k","n","o","w","n"," ","a","c","t","i","o","n",":"," ">>
S_available == <<"."," ","A","v","a","i","l","a","b","l","e",":"," ">>

\* a ToolResult whose data has the default None
ToolResult_init_data_optional(kw) ==
    Returns(ToolResult(kw.success,
                       IF "data" \in DOMAIN kw THEN kw.data ELSE NoData,
                       IF "error" \in DOMAIN kw THEN Some(kw.error) ELSE None,
                       None))

\* ToolResult(**kw): the __init__ of the dataclass (base.py 20-28); success and
\* data are fields without default, a call that omits data raises TypeError
ToolResult_init(kw) ==
    IF "data" \notin DOMAIN kw
    THEN Raises(S_missing_data)
    ELSE Returns(ToolResult(kw.success, kw.data,
                            IF "error" \in DOMAIN kw THEN Some(kw.error) ELSE None,
                            None))

\* the actions the if/elif chain of execute dispatches on
execute_actions(cls) ==
    IF cls = "ProxyTool"
    THEN << <<"s","t","a","t","u","s">>, <<"c","o","n","f","i","g">>, <<"c","l","u","s","t","e","r","s">>, <<"l","i","s","t","e","n","e","r","s">>, <<"s","t","a","t","s">> >>
    ELSE IF cls = "LogsTool"
    THEN << <<"g","e","t">>, <<"s","e","a","r","c","h">>, <<"a","n","a","l","y","z","e">>, <<"e","r","r","o","r","s">>, <<"t","a","i","l">> >>
    ELSE << <<"v","a","l","i","d","a","t","e">>, <<"l","i","s","t">>, <<"a","n","a","l","y","z","e">>, <<"c","h","e","c","k","_","r","o","u","t","i","n","g">>, <<"c","h","e","c","k","_","s","e","c","u","r","i","t","y">> >>

\* the text after "Available: " in the message of the else branch
available_text(cls) ==
    IF cls = "ProxyTool" THEN <<"s","t","a","t","u","s",","," ","c","o","n","f","i","g",","," ","c","l","u","s","t","e","r","s",","," ","l","i","s","t","e","n","e","r","s",","," ","s","t","a","t","s">>
    ELSE IF cls = "LogsTool" THEN <<"g","e","t",","," ","s","e","a","r","c","h",","," ","a","n","a","l","y","z","e",","," ","e","r","r","o","r","s",","," ","t","a","i","l">>
    ELSE <<"v","a","l","i","d","a","t","e",","," ","l","i","s","t",","," ","a","n","a","l","y","z","e",","," ","c","h","e","c","k","_","r","o","u","t","i","n","g",","," ","c","h","e","c","k","_","s","e","c","u","r","i","t","y">>

\* f"Unknown action: {action}. Available: ..."
unknown_action_error(cls, action) ==
    S_unknown_action \o action \o S_available \o available_text(cls)

\* whether execute begins with the test of the cluster client: LogsTool tests
\* self.core_api (logs.py 44), ConfigTool self.custom_api (config.py 48),
\* ProxyTool has none
tests_client(cls) == cls \in {"LogsTool", "ConfigTool"}

\* execute(action, **kwargs) of the three tools (proxy.py 25-45, logs.py 42-68,
\* config.py 46-72); helper is what the action's method does when awaited.
\* The test of the client stands before the try; the dispatch stands in it,
\* and the handler of the try returns ToolResult(success=False, error=str(e))
concrete_execute(cls, client, action, helper) ==
    IF tests_client(cls) /\ ~client
    THEN ToolResult_init([success |-> FALSE, error |-> S_client_not_available])
    ELSE LET body == IF in_list(action, execute_actions(cls))
                     THEN helper
                     ELSE ToolResult_init([success |-> FALSE,
                                           error |-> unknown_action_error(cls, action)])
         IN  IF body.kind = "raise"
             THEN ToolResult_init([success |-> FALSE, error |-> body.msg])
             ELSE body

\* the tools whose execute is called, and whether _init_k8s_client has found a
\* cluster (ProxyTool keeps no client)
ConcreteTools ==
    { [tool |-> t, client |-> c] :
        t \in { o \in ToolObjects : o.cls # "KubectlTool" }, c \in BOOLEAN }
    \ { [tool |-> t, client |-> FALSE] : t \in { o \in ToolObjects : o.cls = "ProxyTool" } }

\* values of the action argument: those of the three chains and two others
ConcreteActions ==
    { execute_actions(cls)[i] : cls \in {"ProxyTool", "LogsTool", "ConfigTool"}, i \in 1..5 }
    \cup { <<"r","e","s","t","a","r","t">>, <<>> }

\* the keyword arguments of a safe_execute call: an action, with or without
\* a pod_name
ConcreteKwargs ==
    { << [k |-> S_action, v |-> a] >> : a \in ConcreteActions }
    \cup { << [k |-> S_action, v |-> a], [k |-> POD_NAME, v |-> <<"p">>] >> : a \in ConcreteActions }

\* a call tool.execute(action) about to be made
ConcreteExecuteCall(t, action) ==
    [op |-> "execute", tool |-> t.tool, client |-> t.client, action |-> action,
     phase |-> "called", outcome |-> NoOutcome]

\* a call tool.safe_execute(**kwargs) about to be made
ConcreteSafeExecuteCall(t, kwargs) ==
    [op |-> "safe_execute", tool |-> t.tool, client |-> t.client, kwargs |-> kwargs,
     phase |-> "called", start_time |-> 0, executions |-> 0, result |-> None]

ConcreteInit ==
    /\ NoController
    /\ EmptyRegistry
    /\ probe \in { ConcreteExecuteCall(t, a) : t \in ConcreteTools, a \in ConcreteActions }
                 \cup { ConcreteSafeExecuteCall(t, kw) : t \in ConcreteTools, kw \in ConcreteKwargs }

\* execute runs and returns or raises
ConcreteExecute(helper) ==
    /\ probe.op = "execute"
    /\ probe.phase = "called"
    /\ probe' = [probe EXCEPT
                   !.phase = "returned",
                   !.outcome = concrete_execute(probe.tool.cls, probe.client,
                                                probe.action, helper)]
    /\ UNCHANGED <<controller, registry>>

\* the execute that safe_execute awaits runs, and safe_execute returns
ConcreteSafeExecuteEnds(helper) ==
    /\ "client" \in DOMAIN probe
    /\ probe.op = "safe_execute"
    /\ SafeExecuteEnds(concrete_execute(probe.tool.cls, probe.client,
                                        dict_get(probe.kwargs, S_action), helper))

ConcreteNext ==
    \/ \E helper \in Outcomes : ConcreteExecute(helper)
    \/ SafeExecuteBegins
    \/ \E helper \in Outcomes : ConcreteSafeExecuteEnds(helper)

ConcreteSpec == ConcreteInit /\ [][ConcreteNext]_vars

\* execute has returned or raised
ConcreteExecuted == probe.op = "execute" /\ probe.phase = "returned"

\* the failure ToolResult with the given error as execute would return it
FailureWith(error) == Returns(ToolResult(FALSE, NoData, Some(error), None))

\* C39 as stated: the failure paths deliver their own message: ProxyTool.execute
\* with an action outside its five returns a failure ToolResult whose error is
\* "Unknown action: <action>. Available: ...", LogsTool.execute and
\* ConfigTool.execute without a cluster client return one with the error
\* "Kubernetes client not available", and none of them raises
C39_OwnMessage ==
    ConcreteExecuted =>
        /\ (probe.tool.cls = "ProxyTool" /\ ~in_list(probe.action, execute_actions("ProxyTool")))
              => probe.outcome = FailureWith(unknown_action_error("ProxyTool", probe.action))
        /\ (tests_client(probe.tool.cls) /\ ~probe.client)
              => probe.outcome = FailureWith(S_client_not_available)

\* C39 as coded: on each of its own failure paths (no client, unknown action,
\* a raising action method) execute raises the TypeError of a ToolResult
\* built without data, and returns a ToolResult only when the action method
\* returned it; safe_execute then reports that TypeError's text, or, for an
\* action outside the declared enum, rejects the call before execute runs
C39_AsCoded ==
    /\ ConcreteExecuted =>
          /\ (tests_client(probe.tool.cls) /\ ~probe.client)
                => probe.outcome = Raises(S_missing_data)
          /\ ~in_list(probe.action, execute_actions(probe.tool.cls))
                => probe.outcome = Raises(S_missing_data)
          /\ probe.outcome.kind = "raise" => probe.outcome.msg = S_missing_data
          /\ probe.outcome.kind = "return" => probe.outcome \in Outcomes
    /\ ("client" \in DOMAIN probe /\ probe.op = "safe_execute" /\ probe.phase = "returned")
          => /\ probe.result[1].error
                   \notin { Some(S_client_not_available),
                            Some(unknown_action_error(probe.tool.cls, dict_get(probe.kwargs, S_action))) }
             /\ (probe.executions = 1 /\ tests_client(probe.tool.cls) /\ ~probe.client)
                   => /\ ~probe.result[1].success
                      /\ probe.result[1].error = Some(S_missing_data)
             /\ probe.executions = 0
                   => ~in_list(dict_get(probe.kwargs, S_action), execute_actions(probe.tool.cls))
                      \/ validate_parameters(probe.tool, probe.kwargs) # <<>>

\* ProxyTool.execute("restart") has raised the TypeError
C39_Witness ==
    /\ ConcreteExecuted
    /\ probe.tool.cls = "ProxyTool"
    /\ probe.action = <<"r","e","s","t","a","r","t">>
    /\ probe.outcome = Raises(S_missing_data)
====
